---- MODULE Spec2Model ----
(***************************************************************************)
(* PlainQ queue engine (package litestore): the SQLite-backed storage, its *)
(* queue-properties cache, its telemetry counters and its garbage          *)
(* collector, as a state machine.                                          *)
(*                                                                         *)
(* Time is counted in whole seconds (current_timestamp has second          *)
(* resolution).  A transaction reads the committed database; a transaction *)
(* that has read and then writes after another transaction committed is    *)
(* refused by SQLite (SQLITE_BUSY), which the engine returns as an error.  *)
(***************************************************************************)
EXTENDS Integers, Sequences, FiniteSets, TLC

(***************************** bounds **************************************)
NumQueues == 2
MaxMsgs == 2
MaxTime == 1
NumClients == 2
MaxCount == 3
MaxGCTicks == 2
GcTimeoutSecs == 1
MaxBytes == 3
MaxPages == 3
CacheSize == 2
MaxPuts == 3
MaxRows == 11
MaxFillPages == 3

QueueIds == 1..NumQueues
Clients == 1..NumClients
Names == {"orders", "audit"}

(************************ program constants ********************************)
msgVisibilityTimeout == 30
queuePropsCacheSize == 1000
msgRetentionPeriod == 604800
maxReceiveAttempts == 5
ULIDLen == 26
\* the length of an xid, the encoding idkit.XID() gives queue ids
XIDLen == 20

\* v1.EvictionPolicy
EVICTION_POLICY_UNSPECIFIED == 0
EVICTION_POLICY_DROP == 1
EVICTION_POLICY_DEAD_LETTER == 2

NoQueue == 0

\* the page size of ListQueues when the request names none
defaultPageSize == 10

\* time.Time{}, the zero time: the year 1, some 62 thousand million seconds
\* before the Unix epoch, represented by a time before every clock reading.
ZeroTime == 0 - 2147483647

(************************** identifiers ************************************)
\* idkit.ULID(): a 26-character message id; n is its place in generation order.
ULID(n) == [len |-> ULIDLen, n |-> n]
\* idkit.ParseXID accepts exactly the 20-character xid encoding.
ParseXID(id) == id.len = XIDLen

(*************************** sequences *************************************)
Range(s) == {s[i] : i \in 1..Len(s)}
Min(a, b) == IF a <= b THEN a ELSE b
IsInjective(s) == \A i, j \in 1..Len(s) : s[i] = s[j] => i = j

(************************ per-queue message table **************************)
\* queryCreateQueueTable: the columns of a queue table.
TableColumns == <<"msg_id", "msg_body", "created_at", "visible_at", "retries">>
\* queryCreateQueueTable: the after-update trigger sets this column.
TriggerColumn == "updated_at"
\* SQLite compiles a table's update triggers when it prepares an UPDATE of
\* that table; a trigger naming a column the table lacks fails the prepare.
TriggerCompiles == TriggerColumn \in Range(TableColumns)

\* queryInsertMessages: created_at, visible_at and retries take their defaults.
NewRow(id, body, t) ==
  [id |-> id, body |-> body, createdAt |-> t, visibleAt |-> t, retries |-> 0]

\* A where clause without the visible_at test.
ReceivableAnyTime(m, maxAttempts, t) == m.retries <= maxAttempts

\* A where clause without the retries test.
ReceivableAnyAttempts(m, maxAttempts, t) == m.visibleAt <= t

\* querySelectMessages, the where clause.
Receivable(m, maxAttempts, t) == m.visibleAt <= t /\ m.retries <= maxAttempts

\* A select that orders by created_at descending.
querySelectNewest(table, maxAttempts, limit, t) ==
  LET R == {m \in table : Receivable(m, maxAttempts, t)}
      k == Min(limit, Cardinality(R))
  IN {s \in [1..k -> R] :
        /\ IsInjective(s)
        /\ \A i \in 1..k : \A j \in 1..k : i < j => s[i].createdAt >= s[j].createdAt
        /\ \A m \in R \ Range(s) : \A i \in 1..k : s[i].createdAt >= m.createdAt}

\* querySelectMessages: up to limit receivable rows, oldest created_at first
\* (rows with equal created_at come in any order).
querySelectMessages(table, maxAttempts, limit, t) ==
  LET R == {m \in table : Receivable(m, maxAttempts, t)}
      k == Min(limit, Cardinality(R))
  IN {s \in [1..k -> R] :
        /\ IsInjective(s)
        /\ \A i \in 1..k : \A j \in 1..k : i < j => s[i].createdAt <= s[j].createdAt
        /\ \A m \in R \ Range(s) : \A i \in 1..k : s[i].createdAt <= m.createdAt}

\* An update that hides the message and leaves retries as it was.
updateVisibleAtOnly(table, msgId, visibleAt) ==
  {IF m.id = msgId THEN [m EXCEPT !.visibleAt = visibleAt] ELSE m : m \in table}

\* queryUpdateMessages, run for msgId.
queryUpdateMessages(table, msgId, visibleAt) ==
  {IF m.id = msgId
     THEN [m EXCEPT !.visibleAt = visibleAt, !.retries = m.retries + 1]
     ELSE m : m \in table}

\* queryDeleteMessage.
queryDeleteMessage(table, msgId) == {m \in table : m.id # msgId}

\* datetime(created_at, '+? seconds') of queryDropMessages and
\* querySelectMoveToDLQ: the question mark stands inside a string literal, so
\* it is no parameter; '+? seconds' is no valid modifier and datetime()
\* returns NULL, which compares as unknown.  The value is the set of times
\* the expression denotes: none.
RetentionDeadline(m, retention) == {}

\* The where clause of queryDropMessages and querySelectMoveToDLQ.
Evictable(m, maxAttempts, retention, t) ==
  \/ m.retries >= maxAttempts
  \/ \E d \in RetentionDeadline(m, retention) : d <= t

\* queryDropMessages: the rows that stay.
queryDropMessages(table, maxAttempts, retention, t) ==
  {m \in table : ~Evictable(m, maxAttempts, retention, t)}

\* querySelectMoveToDLQ: select * returns every column of the matching rows.
querySelectMoveToDLQ(table, maxAttempts, retention, t) ==
  {m \in table : Evictable(m, maxAttempts, retention, t)}

\* rows.Scan(&msgID, &msgBody) in moveMessagesToDLQ: database/sql wants as
\* many destinations as the row has columns.
ScanDestinations == <<"msgID", "msgBody">>
ScanSucceeds == Len(ScanDestinations) = Len(TableColumns)

VARIABLES
  now,              \* wall clock, seconds
  props,            \* queue_properties: queue id -> row, or NoRow
  tables,           \* queue id -> the message rows of its table
  schema,           \* queue id -> "none", "table" or "table+trigger"
  cache,            \* QueuePropsCache.byID: queue id -> QueueProps, or NoEntry
  QueuesExist,      \* gauge queues_exist
  msgSentTotal,     \* counter messages_sent_total{queue}
  msgReceived,      \* counter messages_received_total{queue}
  msgDeleted,       \* counter messages_deleted_total{queue}
  msgDropped,       \* counter messages_dropped_total{queue, policy}
  GCSchedules,      \* counter gc_schedules_total
  pc,               \* client -> where its current call stands
  loc,              \* client -> the locals of its current call
  last,             \* what the call that returned most recently returned
  loop,             \* client -> where it stands in its consumer loop
  nextMsg,          \* ULIDs handed out so far + 1
  nextQueue,        \* queue ids handed out so far + 1
  deliveries,       \* message number -> select times of the Receives that returned it
  succCount,        \* message number -> times a Delete reported it successful
  gcPc,             \* the GC goroutine: "idle", "paging", "sweeping", "dead", "stopped";
                    \* "none" before New starts it
  gcLoc,            \* locals of the GC tick in progress
  sweepLeft,        \* queue id -> what its last committed sweep left in the table
  closed,           \* Close was called
  msgSentBytes,     \* counter messages_sent_bytes_total{queue}
  pager,            \* a caller paging through ListQueues
  byName,           \* QueuePropsCache.byName: queue name -> queue id, or NoQueue
  qpc,              \* a QueuePropsCache with its recency list, used on its own
  touched,          \* history: the elements of qpc, least recently put or got first
  boot              \* New: where it stands, the database file it was given, its locals

vars == <<now, props, tables, schema, cache, QueuesExist, msgSentTotal, msgReceived,
          msgDeleted, msgDropped, GCSchedules, pc, loc, last, loop, nextMsg,
          nextQueue, deliveries, succCount, gcPc, gcLoc, sweepLeft, closed,
          msgSentBytes, pager, byName, qpc, touched, boot>>

NoRow == [id |-> NoQueue]
NoEntry == [id |-> NoQueue]

HasRow(q) == props[q].id # NoQueue
HasTable(q) == schema[q] # "none"
Cached(q) == cache[q].id # NoQueue

\* QueuePropsCache.getByName: the entry the name leads to.
CachedName(s) == s \in Names /\ byName[s] # NoQueue
getByName(s) == cache[byName[s]]

\* QueuePropsCache.put.  At capacity put removes the back element of the
\* recency list and nothing else: byID and byName keep what they hold, and
\* getByID, getByName and list read only the two maps and the elements the
\* maps point to, so the list decides no answer and is not kept here.
put(p) ==
  /\ cache' = [cache EXCEPT ![p.id] = p]
  /\ byName' = [byName EXCEPT ![p.name] = p.id]

\* QueuePropsCache.delete: nothing when the id is not cached.
delete(id, name) ==
  IF ~Cached(id) THEN UNCHANGED <<cache, byName>>
  ELSE /\ cache' = [cache EXCEPT ![id] = NoEntry]
       /\ byName' = [byName EXCEPT ![name] = NoQueue]

\* tx.PrepareContext(queryUpdateMessages(q)): the table must exist and its
\* update trigger, if it has one, must compile.
PrepareUpdate(q) == HasTable(q) /\ (schema[q] = "table+trigger" => TriggerCompiles)

\* A row of queue_properties as inserted at time gcAt: created_at and gc_at
\* both default to current_timestamp.
PropsRow(id, name, gcAt, retention, visibility, maxAttempts, policy, dlq) ==
  [id |-> id, name |-> name, createdAt |-> gcAt, gcAt |-> gcAt,
   retention |-> retention, visibility |-> visibility,
   maxAttempts |-> maxAttempts, policy |-> policy, dlq |-> dlq]

\* QueueProps, as propsFromProto builds it from a scanned properties row.
QueueProps(row) ==
  [id |-> row.id, name |-> row.name, createdAt |-> row.createdAt,
   retention |-> row.retention, visibility |-> row.visibility,
   maxAttempts |-> row.maxAttempts, policy |-> row.policy, dlq |-> row.dlq]

\* The QueueProps that CreateQueue puts into the cache: the request's fields
\* after the defaults, CreatedAt left at its zero value.
CreateQueueProps(row) == [QueueProps(row) EXCEPT !.createdAt = ZeroTime]

\* listQueues: a scanned row, an unspecified eviction policy replaced by DROP.
listQueuesInfo(row) ==
  [QueueProps(row) EXCEPT
     !.policy = IF @ = EVICTION_POLICY_UNSPECIFIED THEN EVICTION_POLICY_DROP ELSE @]

\* propsToProto and propsFromProto copy field by field; the time is converted
\* to UTC, which leaves its seconds alone.
propsToProto(p) ==
  [id |-> p.id, name |-> p.name, createdAt |-> p.createdAt,
   retention |-> p.retention, visibility |-> p.visibility,
   maxAttempts |-> p.maxAttempts, policy |-> p.policy, dlq |-> p.dlq]
propsFromProto(r) ==
  [id |-> r.id, name |-> r.name, createdAt |-> r.createdAt,
   retention |-> r.retention, visibility |-> r.visibility,
   maxAttempts |-> r.maxAttempts, policy |-> r.policy, dlq |-> r.dlq]

\* The request of a call that has none yet.
NoRequest == [queueId |-> NoQueue]

IdleLoc == [q |-> NoQueue, limit |-> 0, visibility |-> 0, maxAttempts |-> 0,
            rows |-> <<>>, stale |-> FALSE, t |-> 0, beside |-> {},
            info |-> NoEntry, req |-> NoRequest]

\* What a call returned: status is "ok", "error" or "panic"; err is what the
\* returned error wraps: a sentinel ("ErrInvalidArgument" of errkit,
\* "ErrInvalidInput" and "ErrNotFound" of pqerr, "ErrNoRows" of database/sql),
\* an error of SQLite ("constraint", "no such table", "no such column",
\* "busy" for a statement the environment made fail) or "none"; fault is the
\* statement the environment made fail; req is the request; ids are the
\* message ids the request named (Delete); out is the list returned (Send:
\* messageIds, Receive: messages, Delete: successful, CreateQueue: the queue
\* id, DescribeQueue: the properties; Delete's failed list is the ids whose
\* delete statement failed, of which there are none once the statement is
\* prepared); t is the time of a Receive's select or of a CreateQueue's
\* insert; beside are the deliveries other Receives committed while this
\* call ran.
NoReturn == [op |-> "none", status |-> "none", err |-> "none", fault |-> "none",
             req |-> NoRequest, ids |-> <<>>, out |-> <<>>, t |-> 0, beside |-> {}]
Failed(op, status) == [NoReturn EXCEPT !.op = op, !.status = status]

\* A consumer (the test scenarios' loop "Receive, then Delete what was
\* received, until Receive returns nothing") after one of its calls returned r.
LoopOff == [state |-> "off", held |-> <<>>]
Reaction(cur, r) ==
  IF cur.state = "off" THEN cur
  ELSE IF r.status # "ok" THEN [state |-> "failed", held |-> <<>>]
  ELSE IF r.op = "Receive"
    THEN IF r.out = <<>> THEN [state |-> "empty", held |-> <<>>]
         ELSE [state |-> "delete", held |-> [i \in 1..Len(r.out) |-> r.out[i].id]]
  ELSE [state |-> "receive", held |-> <<>>]

\* The call of client c returns r.
Returns(c, r) ==
  /\ last' = r
  /\ loop' = [loop EXCEPT ![c] = Reaction(loop[c], r)]

InFlight(c) == pc[c] # "idle"

\* A transaction other than c's commits writes to the database: every open
\* transaction that has read it now holds an outdated snapshot.
MarkStale(c) ==
  [d \in Clients |->
     IF d # c /\ pc[d] = "recvUpdate"
       THEN [loc[d] EXCEPT !.stale = TRUE] ELSE loc[d]]

\* MetricsObserver.MessagesSent and MetricsObserver.EmptyReceives: both are
\* the counter messages_sent_total{queue=q}, read here from the counters
\* total of that name.
MessagesSent(total, q) == total[q]
EmptyReceives(total, q) == total[q]

Bump(counter, q, n) == [counter EXCEPT ![q] = counter[q] + n]

\* The counters of q that a call may raise without bound are below the cap.
BelowCap(q) == msgSentTotal[q] < MaxCount /\ msgDeleted[q] < MaxCount

(****************************** Send ***************************************)
\* len(m.Body) of the message bodies the callers send.
BodyLen == [a |-> 1, b |-> 1, cc |-> 2]
RECURSIVE SumLen(_, _)
SumLen(bodies, k) == IF k = 0 THEN 0 ELSE SumLen(bodies, k - 1) + BodyLen[bodies[k]]

\* Storage.Send: one transaction inserting a fresh ULID per body;
\* MessagesSentBytes is raised inside the loop after each insert,
\* MessagesSent after Commit.  fail = 0: nothing fails; fail = k in
\* 1..Len(bodies): the k-th insert fails (the context is cancelled, the
\* database is busy); fail = Len(bodies) + 1: Commit fails.  A failed call
\* rolls its inserts back.
SendCall(c, q, bodies, fail) ==
  /\ pc[c] = "idle"
  /\ BelowCap(q)
  /\ msgSentBytes[q] < MaxBytes
  /\ IF ~HasTable(q)
       THEN \* PrepareContext: no such table
            /\ Returns(c, [Failed("Send", "error") EXCEPT !.err = "no such table",
                                                          !.req = [queueId |-> q, bodies |-> bodies]])
            /\ UNCHANGED <<tables, nextMsg, msgSentTotal, msgSentBytes, loc>>
       ELSE IF fail # 0
       THEN /\ msgSentBytes' = Bump(msgSentBytes, q, SumLen(bodies, Min(fail, Len(bodies) + 1) - 1))
            /\ Returns(c, [Failed("Send", "error") EXCEPT !.err = "busy",
                                     !.fault = "insert or commit", !.req = [queueId |-> q, bodies |-> bodies]])
            /\ UNCHANGED <<tables, nextMsg, msgSentTotal, loc>>
       ELSE /\ nextMsg + Len(bodies) - 1 <= MaxMsgs
            /\ LET ids == [i \in 1..Len(bodies) |-> ULID(nextMsg + i - 1)]
                   rows == {NewRow(ids[i], bodies[i], now) : i \in 1..Len(bodies)}
               IN /\ tables' = [tables EXCEPT ![q] = tables[q] \cup rows]
                  /\ nextMsg' = nextMsg + Len(bodies)
                  /\ msgSentBytes' = Bump(msgSentBytes, q, SumLen(bodies, Len(bodies)))
                  /\ msgSentTotal' = Bump(msgSentTotal, q, Len(bodies))
                  /\ loc' = MarkStale(c)
                  /\ Returns(c, [NoReturn EXCEPT !.op = "Send", !.status = "ok",
                                                 !.req = [queueId |-> q, bodies |-> bodies], !.out = ids])
  /\ UNCHANGED <<now, props, schema, cache, QueuesExist, msgReceived, msgDeleted,
                 msgDropped, GCSchedules, pc, nextQueue, deliveries, succCount,
                 gcPc, gcLoc, sweepLeft, closed, pager, qpc, touched, boot, byName>>

\* A Send in which nothing fails.
Send(c, q, bodies) == SendCall(c, q, bodies, 0)

(***************************** Receive *************************************)
\* Storage.Receive up to the visibleAt computation: DescribeQueue (cache,
\* then database), BeginTx, PrepareContext of queryUpdateMessages, and
\* tx.QueryContext(querySelectMessages), the transaction's first read.
ReceiveSelect(c, q, batchSize) ==
  /\ pc[c] = "idle"
  /\ BelowCap(q)
  /\ LET known == Cached(q) \/ HasRow(q)
         info == IF Cached(q) THEN cache[q] ELSE QueueProps(props[q])
         limit == IF batchSize = 0 THEN 1 ELSE batchSize
     IN /\ IF ~Cached(q) /\ HasRow(q)
             THEN put(QueueProps(props[q])) ELSE UNCHANGED <<cache, byName>>
        /\ IF known /\ PrepareUpdate(q)
             THEN /\ \E rows \in querySelectMessages(tables[q], info.maxAttempts,
                                                     limit, now) :
                       loc' = [loc EXCEPT ![c] =
                                 [IdleLoc EXCEPT !.q = q, !.limit = limit,
                                    !.visibility = info.visibility,
                                    !.maxAttempts = info.maxAttempts,
                                    !.rows = rows, !.t = now,
                                    !.req = [queueId |-> q, batchSize |-> batchSize]]]
                  /\ pc' = [pc EXCEPT ![c] = "recvUpdate"]
                  /\ UNCHANGED <<last, loop>>
             ELSE /\ Returns(c, [Failed("Receive", "error") EXCEPT !.req = [queueId |-> q],
                                   !.err = IF ~known THEN "ErrNoRows"
                                           ELSE IF ~HasTable(q) THEN "no such table"
                                           ELSE "no such column"])
                  /\ UNCHANGED <<pc, loc>>
  /\ UNCHANGED <<now, props, tables, schema, QueuesExist, msgSentTotal, msgReceived,
                 msgDeleted, msgDropped, GCSchedules, nextMsg, nextQueue, deliveries,
                 succCount, gcPc, gcLoc, sweepLeft, closed,
                 msgSentBytes, pager, qpc, touched, boot>>

\* A database that lets a transaction write over an outdated snapshot.
WriteNeverRefused(c) == FALSE

\* SQLite refuses (SQLITE_BUSY) the first write of a transaction whose
\* snapshot is outdated.
WriteRefused(c) == loc[c].stale

\* A writer's commit may also be refused while another transaction still
\* holds its read lock (rollback-journal mode, busy timeout elapsed).
CommitMayFail(c) == \E d \in Clients \ {c} : pc[d] = "recvUpdate"

\* The rows after the update loop of Storage.Receive ran over the selected rows.
RECURSIVE UpdateAll(_, _, _)
UpdateAll(table, rows, visibleAt) ==
  IF rows = <<>> THEN table
  ELSE UpdateAll(queryUpdateMessages(table, Head(rows).id, visibleAt), Tail(rows), visibleAt)

\* v1.ReceiveMessage of a selected row.
ReceiveMessage(row) == [id |-> row.id, body |-> row.body]

\* The locals of the calls in flight after c's Receive committed the
\* deliveries of rows selected at time t: the other open transactions on the
\* table are outdated, and the calls that ran beside c's have c's deliveries
\* beside them.
AfterDelivery(c, rows, t) ==
  LET stale == MarkStale(c)
      mine == {[n |-> rows[i].id.n, t |-> t] : i \in 1..Len(rows)}
  IN [d \in Clients |->
        IF d = c THEN IdleLoc
        ELSE IF InFlight(d) THEN [stale[d] EXCEPT !.beside = @ \cup mine]
        ELSE stale[d]]

\* Storage.Receive from the rows.Next() loop to the return: one update per
\* selected row, Commit, then the counters.
ReceiveUpdate(c) ==
  /\ pc[c] = "recvUpdate"
  /\ LET q == loc[c].q
         rows == loc[c].rows
         visibleAt == loc[c].t + loc[c].visibility
     IN \E busy \in IF Len(rows) > 0 /\ CommitMayFail(c) THEN BOOLEAN ELSE {FALSE} :
        IF Len(rows) > 0 /\ (busy \/ WriteRefused(c) \/ ~HasTable(q))
          THEN /\ Returns(c, Failed("Receive", "error"))
               /\ loc' = [loc EXCEPT ![c] = IdleLoc]
               /\ UNCHANGED <<tables, msgSentTotal, msgReceived, deliveries>>
          ELSE /\ tables' = IF Len(rows) > 0
                              THEN [tables EXCEPT ![q] = UpdateAll(tables[q], rows, visibleAt)]
                              ELSE tables
               /\ loc' = IF Len(rows) > 0
                           THEN AfterDelivery(c, rows, loc[c].t)
                           ELSE [loc EXCEPT ![c] = IdleLoc]
               \* EmptyReceives(q) is the counter messages_sent_total{queue=q}
               /\ msgSentTotal' = IF Len(rows) = 0 THEN Bump(msgSentTotal, q, 1)
                                  ELSE msgSentTotal
               /\ msgReceived' = Bump(msgReceived, q, Len(rows))
               /\ deliveries' = [n \in 1..MaxMsgs |->
                     IF \E i \in 1..Len(rows) : rows[i].id.n = n
                       THEN Append(deliveries[n], loc[c].t) ELSE deliveries[n]]
               /\ Returns(c, [NoReturn EXCEPT !.op = "Receive", !.status = "ok",
                       !.out = [i \in 1..Len(rows) |-> ReceiveMessage(rows[i])],
                       !.t = loc[c].t, !.beside = loc[c].beside])
  /\ pc' = [pc EXCEPT ![c] = "idle"]
  /\ UNCHANGED <<now, props, schema, cache, QueuesExist, msgDeleted, msgDropped,
                 GCSchedules, nextMsg, nextQueue, succCount, gcPc, gcLoc,
                 sweepLeft, closed,
                 msgSentBytes, pager, qpc, touched, boot, byName>>

(****************************** Delete *************************************)
\* Storage.Delete, the loop over the requested ids: the delete statement runs
\* (an id that matches no row deletes nothing and is no error), then the id
\* is parsed as an xid to time the message; a parse failure panics.
RECURSIVE DeleteLoop(_, _, _)
DeleteLoop(table, ids, successful) ==
  IF ids = <<>> THEN [table |-> table, successful |-> successful, panicked |-> FALSE]
  ELSE IF ParseXID(Head(ids))
    THEN DeleteLoop(queryDeleteMessage(table, Head(ids)), Tail(ids),
                    Append(successful, Head(ids)))
    ELSE [table |-> table, successful |-> successful, panicked |-> TRUE]

\* Storage.Delete: one transaction; the deferred Rollback undoes it when the
\* loop panics.
Delete(c, q, ids) ==
  /\ pc[c] = "idle"
  /\ BelowCap(q)
  /\ LET r == DeleteLoop(tables[q], ids, <<>>)
         base == [NoReturn EXCEPT !.op = "Delete", !.ids = ids]
     IN IF ~HasTable(q)
          THEN /\ Returns(c, [base EXCEPT !.status = "error", !.err = "no such table"])
               /\ UNCHANGED <<tables, msgDeleted, succCount, loc>>
          ELSE IF r.panicked
          THEN /\ Returns(c, [base EXCEPT !.status = "panic"])
               /\ UNCHANGED <<tables, msgDeleted, succCount, loc>>
          ELSE /\ tables' = [tables EXCEPT ![q] = r.table]
               /\ loc' = IF r.table # tables[q] THEN MarkStale(c) ELSE loc
               /\ msgDeleted' = Bump(msgDeleted, q, Len(r.successful))
               /\ succCount' = [n \in 1..MaxMsgs |->
                     succCount[n] + Cardinality({i \in 1..Len(r.successful) :
                                                   r.successful[i] = ULID(n)})]
               /\ Returns(c, [base EXCEPT !.status = "ok", !.out = r.successful])
  /\ UNCHANGED <<now, props, schema, cache, QueuesExist, msgSentTotal, msgReceived,
                 msgDropped, GCSchedules, pc, nextMsg, nextQueue, deliveries,
                 gcPc, gcLoc, sweepLeft, closed,
                 msgSentBytes, pager, qpc, touched, boot, byName>>

(******************************* clock *************************************)
Tick ==
  /\ now < MaxTime
  /\ now' = now + 1
  /\ UNCHANGED <<props, tables, schema, cache, QueuesExist, msgSentTotal, msgReceived,
                 msgDeleted, msgDropped, GCSchedules, pc, loc, last, loop,
                 nextMsg, nextQueue, deliveries, succCount, gcPc, gcLoc,
                 sweepLeft, closed,
                 msgSentBytes, pager, qpc, touched, boot, byName>>

(*************************** transactions **********************************)
\* The committed database as one value, and what tx.Rollback leaves of a
\* transaction's writes: nothing.
Database == [props |-> props, schema |-> schema, tables |-> tables]
RollbackKeepsWrites(before, partial) == partial
Rollback(before, partial) == before
Becomes(db) == props' = db.props /\ schema' = db.schema /\ tables' = db.tables

(*************************** CreateQueue ***********************************)
\* v1.CreateQueueRequest.
CreateQueueRequest(name, retention, visibility, attempts, policy, dlq) ==
  [name |-> name, retention |-> retention, visibility |-> visibility,
   maxAttempts |-> attempts, policy |-> policy, dlq |-> dlq]

\* Storage.CreateQueue up to Commit: the empty-name check, the defaults, then
\* one transaction that inserts the properties row (queue_name is unique)
\* and creates the table with its trigger.  The queue takes the next unused
\* id.  fail names the statement that fails for a reason of the environment
\* (context cancelled, database busy): "insert", "table", "commit" or "none".
CreateQueueCall(c, name, retention, visibility, attempts, policy, dlq, fail) ==
  /\ pc[c] = "idle"
  /\ nextQueue <= NumQueues
  /\ LET q == nextQueue
         req == CreateQueueRequest(name, retention, visibility, attempts, policy, dlq)
         row == PropsRow(q, name, now,
                  IF retention = 0 THEN msgRetentionPeriod ELSE retention,
                  IF visibility = 0 THEN msgVisibilityTimeout ELSE visibility,
                  IF attempts = 0 THEN maxReceiveAttempts ELSE attempts,
                  policy, dlq)
         taken == \E p \in QueueIds : HasRow(p) /\ props[p].name = name
         inserted == [Database EXCEPT !.props[q] = row]
         created == [inserted EXCEPT !.schema[q] = "table+trigger", !.tables[q] = {}]
         refused(err, partial) ==
           /\ Becomes(Rollback(Database, partial))
           /\ Returns(c, [Failed("CreateQueue", "error") EXCEPT
                             !.err = err, !.req = req,
                             !.fault = IF err = "busy" THEN fail ELSE "none"])
           /\ UNCHANGED <<nextQueue, pc, loc>>
     IN IF name = "" THEN refused("ErrInvalidArgument", Database)
        ELSE IF taken THEN refused("constraint", Database)
        ELSE IF fail = "insert" THEN refused("busy", Database)
        ELSE IF fail = "table" THEN refused("busy", inserted)
        ELSE IF fail = "commit" THEN refused("busy", created)
        ELSE /\ Becomes(created)
             /\ nextQueue' = nextQueue + 1
             /\ pc' = [pc EXCEPT ![c] = "createPost"]
             /\ loc' = [MarkStale(c) EXCEPT ![c] =
                          [IdleLoc EXCEPT !.q = q, !.t = now, !.req = req,
                                          !.info = CreateQueueProps(row)]]
             /\ UNCHANGED <<last, loop>>
  /\ UNCHANGED <<now, cache, QueuesExist, msgSentTotal, msgReceived, msgDeleted,
                 msgDropped, GCSchedules, nextMsg, deliveries, succCount, gcPc,
                 gcLoc, sweepLeft, closed, msgSentBytes, pager, qpc, touched, boot, byName>>

\* A CreateQueue in which nothing of the environment fails.
CreateQueueTx(c, name, retention, visibility, attempts, policy, dlq) ==
  CreateQueueCall(c, name, retention, visibility, attempts, policy, dlq, "none")

\* Storage.CreateQueue after Commit: cache.put and QueuesExist().Inc().
CreateQueuePost(c) ==
  /\ pc[c] = "createPost"
  /\ put(loc[c].info)
  /\ QueuesExist' = QueuesExist + 1
  /\ pc' = [pc EXCEPT ![c] = "idle"]
  /\ loc' = [loc EXCEPT ![c] = IdleLoc]
  /\ Returns(c, [NoReturn EXCEPT !.op = "CreateQueue", !.status = "ok",
                                 !.req = loc[c].req, !.out = <<[queueId |-> loc[c].q]>>,
                                 !.t = loc[c].t])
  /\ UNCHANGED <<now, props, tables, schema, msgSentTotal, msgReceived, msgDeleted,
                 msgDropped, GCSchedules, nextMsg, nextQueue, deliveries, succCount,
                 gcPc, gcLoc, sweepLeft, closed, msgSentBytes, pager, qpc, touched, boot>>

(*************************** DeleteQueue ***********************************)
\* Storage.DeleteQueue up to Commit: the cache lookup (a miss is an error
\* that wraps no sentinel), then one transaction that deletes the properties
\* row (none deleted: ErrNotFound) and drops the table.  fail is "delete",
\* "drop", "commit" or "none".
DeleteQueueCall(c, q, fail) ==
  /\ pc[c] = "idle"
  /\ LET deleted == [Database EXCEPT !.props[q] = NoRow]
         dropped == [deleted EXCEPT !.schema[q] = "none", !.tables[q] = {}]
         refused(err, partial) ==
           /\ Becomes(Rollback(Database, partial))
           /\ Returns(c, [Failed("DeleteQueue", "error") EXCEPT
                             !.err = err, !.req = [queueId |-> q],
                             !.fault = IF err = "busy" THEN fail ELSE "none"])
           /\ UNCHANGED <<pc, loc>>
     IN IF ~Cached(q) THEN refused("none", Database)
        ELSE IF fail = "delete" THEN refused("busy", Database)
        ELSE IF ~HasRow(q) THEN refused("ErrNotFound", Database)
        ELSE IF ~HasTable(q) THEN refused("no such table", deleted)
        ELSE IF fail = "drop" THEN refused("busy", deleted)
        ELSE IF fail = "commit" THEN refused("busy", dropped)
        ELSE /\ Becomes(dropped)
             /\ pc' = [pc EXCEPT ![c] = "deletePost"]
             /\ loc' = [MarkStale(c) EXCEPT ![c] =
                          [IdleLoc EXCEPT !.q = q, !.req = [queueId |-> q], !.info = cache[q]]]
             /\ UNCHANGED <<last, loop>>
  /\ UNCHANGED <<now, cache, QueuesExist, msgSentTotal, msgReceived, msgDeleted,
                 msgDropped, GCSchedules, nextMsg, nextQueue, deliveries, succCount,
                 gcPc, gcLoc, sweepLeft, closed, msgSentBytes, pager, qpc, touched, boot, byName>>

\* A DeleteQueue in which nothing of the environment fails.
DeleteQueueTx(c, q) == DeleteQueueCall(c, q, "none")

\* A DeleteQueue that forgets QueuesExist().Dec().
DeleteQueuePostNoDec(c) ==
  /\ pc[c] = "deletePost"
  /\ delete(loc[c].info.id, loc[c].info.name)
  /\ pc' = [pc EXCEPT ![c] = "idle"]
  /\ loc' = [loc EXCEPT ![c] = IdleLoc]
  /\ Returns(c, [NoReturn EXCEPT !.op = "DeleteQueue", !.status = "ok",
                                 !.req = loc[c].req])
  /\ UNCHANGED <<now, props, tables, schema, QueuesExist, msgSentTotal, msgReceived,
                 msgDeleted, msgDropped, GCSchedules, nextMsg, nextQueue, deliveries,
                 succCount, gcPc, gcLoc, sweepLeft, closed,
                 msgSentBytes, pager, qpc, touched, boot>>

\* Storage.DeleteQueue after Commit: cache.delete and QueuesExist().Dec().
DeleteQueuePost(c) ==
  /\ pc[c] = "deletePost"
  /\ delete(loc[c].info.id, loc[c].info.name)
  /\ QueuesExist' = QueuesExist - 1
  /\ pc' = [pc EXCEPT ![c] = "idle"]
  /\ loc' = [loc EXCEPT ![c] = IdleLoc]
  /\ Returns(c, [NoReturn EXCEPT !.op = "DeleteQueue", !.status = "ok",
                                 !.req = loc[c].req])
  /\ UNCHANGED <<now, props, tables, schema, msgSentTotal, msgReceived, msgDeleted,
                 msgDropped, GCSchedules, nextMsg, nextQueue, deliveries, succCount,
                 gcPc, gcLoc, sweepLeft, closed,
                 msgSentBytes, pager, qpc, touched, boot>>

(************************** garbage collector ******************************)
NoSweep == [info |-> NoEntry, time |-> 0, rows |-> {}]
IdleGC == [limit |-> 0, offset |-> 0, queues |-> <<>>, next |-> 1]

\* Storage.gc, the ticker fires: no tick when no queue exists, else count
\* the schedule and enter queuesForGC with limit = QueuesExist, offset = 0.
GCTick ==
  /\ gcPc = "idle"
  /\ ~closed
  /\ GCSchedules < MaxGCTicks
  /\ IF QueuesExist = 0
       THEN UNCHANGED <<GCSchedules, gcPc, gcLoc>>
       ELSE /\ GCSchedules' = GCSchedules + 1
            /\ gcPc' = "paging"
            /\ gcLoc' = [IdleGC EXCEPT !.limit = QueuesExist]
  /\ UNCHANGED <<now, props, tables, schema, cache, QueuesExist, msgSentTotal,
                 msgReceived, msgDeleted, msgDropped, pc, loc, last, loop, nextMsg,
                 nextQueue, deliveries, succCount, sweepLeft, closed,
                 msgSentBytes, pager, qpc, touched, boot, byName>>

\* querySelectQueueForGC: the queues whose gc_at is more than the GC timeout
\* old, ordered by gc_at (equal gc_at in any order), from offset, at most limit.
querySelectQueueForGC(t, limit, offset) ==
  LET D == {q \in QueueIds : HasRow(q) /\ props[q].gcAt < t - GcTimeoutSecs}
      n == Cardinality(D)
      orders == {s \in [1..n -> D] :
                   /\ IsInjective(s)
                   /\ \A i \in 1..n : \A j \in 1..n :
                        i < j => props[s[i]].gcAt <= props[s[j]].gcAt}
  IN {SubSeq(s, offset + 1, Min(offset + limit, n)) : s \in orders}

\* Storage.queuesForGC, one turn of its loop: run the query, append the page,
\* leave the loop when the number of queues collected differs from limit, else
\* move offset on by limit.  An offset at or past the number of rows selects
\* nothing whatever its value, so it is kept at NumQueues from there on.
\* After Close the context is cancelled, the query fails and gc panics.
GCPage ==
  /\ gcPc = "paging"
  /\ IF closed
       THEN gcPc' = "dead" /\ gcLoc' = IdleGC
       ELSE \E page \in querySelectQueueForGC(now, gcLoc.limit, gcLoc.offset) :
              LET queues == gcLoc.queues \o page
              IN IF Len(queues) # gcLoc.limit
                   THEN IF queues = <<>>
                          THEN gcPc' = "idle" /\ gcLoc' = IdleGC
                          ELSE /\ gcPc' = "sweeping"
                               /\ gcLoc' = [gcLoc EXCEPT !.queues = queues, !.next = 1]
                   ELSE /\ gcPc' = "paging"
                        /\ gcLoc' = [gcLoc EXCEPT !.queues = queues,
                                       !.offset = Min(gcLoc.offset + gcLoc.limit, NumQueues)]
  /\ UNCHANGED <<now, props, tables, schema, cache, QueuesExist, msgSentTotal,
                 msgReceived, msgDeleted, msgDropped, GCSchedules, pc, loc, last,
                 loop, nextMsg, nextQueue, deliveries, succCount, sweepLeft, closed,
                 msgSentBytes, pager, qpc, touched, boot, byName>>

\* A dropMessages that reports twice the rows affected.
dropMessagesCountedTwice(info, t) ==
  LET kept == queryDropMessages(tables[info.id], info.maxAttempts, info.retention, t)
  IN [err |-> ~HasTable(info.id), table |-> kept, dlq |-> {},
      n |-> 2 * (Cardinality(tables[info.id]) - Cardinality(kept))]

\* dropMessages: the table after queryDropMessages, and the rows affected.
dropMessages(info, t) ==
  LET kept == queryDropMessages(tables[info.id], info.maxAttempts, info.retention, t)
  IN [err |-> ~HasTable(info.id), table |-> kept, dlq |-> {},
      n |-> Cardinality(tables[info.id]) - Cardinality(kept)]

\* moveMessagesToDLQ: select the evictable rows, prepare the insert into the
\* dead-letter table, scan each row and insert its id and body there.  No
\* statement removes the rows from the source table.
moveMessagesToDLQ(info, t) ==
  LET sel == querySelectMoveToDLQ(tables[info.id], info.maxAttempts, info.retention, t)
      dst == IF info.dlq \in QueueIds THEN tables[info.dlq] ELSE {}
      prepared == info.dlq \in QueueIds /\ HasTable(info.dlq)
      clash == \E m \in sel : \E d \in dst : d.id = m.id
  IN [err |-> \/ ~HasTable(info.id)
              \/ ~prepared
              \/ sel # {} /\ (~ScanSucceeds \/ clash),
      table |-> tables[info.id],
      dlq |-> {NewRow(m.id, m.body, t) : m \in sel},
      n |-> Cardinality(sel)]

\* Storage.sweep of queue q at time t, up to Commit.
sweep(q, t) ==
  LET info == cache[q]
      r == IF info.policy = EVICTION_POLICY_DROP THEN dropMessages(info, t)
           ELSE IF info.policy = EVICTION_POLICY_DEAD_LETTER THEN moveMessagesToDLQ(info, t)
           ELSE [err |-> TRUE, table |-> tables[q], dlq |-> {}, n |-> 0]
  IN IF ~Cached(q) THEN [err |-> TRUE, table |-> tables[q], dlq |-> {}, n |-> 0]
     \* updateQueuePropsAfterGC: no affected row is an error
     ELSE [r EXCEPT !.err = r.err \/ ~HasRow(q)]

\* An update after the sweep that leaves gc_at as it was.
updateNothingAfterGC(row, t) == row
\* queryUpdateQueueAfterGC: update queue_properties set gc_at =
\* current_timestamp where queue_id = ?.
queryUpdateQueueAfterGC(row, t) == [row EXCEPT !.gcAt = t]

\* Storage.gc, the loop over the queues of the tick: sweep the next one; a
\* sweep error panics, the deferred recover of gc logs it and gc returns.
\* The sweep is one transaction: the statements of the policy, the update of
\* gc_at, Commit; the deferred Rollback undoes what a failing sweep wrote.
\* fail names the statement that fails for a reason of the environment:
\* "update", "commit" or "none".
GCSweepCall(fail) ==
  /\ gcPc = "sweeping"
  /\ LET q == gcLoc.queues[gcLoc.next]
         r == sweep(q, now)
         evicted == [Database EXCEPT !.tables =
                       [p \in QueueIds |->
                          IF p = q THEN r.table
                          ELSE IF p = cache[q].dlq THEN tables[p] \cup r.dlq
                          ELSE tables[p]]]
         updated == [evicted EXCEPT !.props[q] = queryUpdateQueueAfterGC(props[q], now)]
         failed(partial) ==
           /\ Becomes(Rollback(Database, partial))
           /\ gcPc' = "dead"
           /\ gcLoc' = IdleGC
           /\ UNCHANGED <<msgDropped, sweepLeft, loc>>
     IN IF closed \/ ~Cached(q) THEN failed(Database)
        ELSE IF r.err \/ fail = "update" THEN failed(evicted)
        ELSE IF fail = "commit" THEN failed(updated)
        ELSE /\ Becomes(updated)
             /\ msgDropped' = Bump(msgDropped, q, r.n)
             /\ sweepLeft' = [sweepLeft EXCEPT ![q] =
                                [info |-> cache[q], time |-> now, rows |-> r.table]]
             /\ loc' = MarkStale(0)
             /\ IF gcLoc.next = Len(gcLoc.queues)
                  THEN gcPc' = "idle" /\ gcLoc' = IdleGC
                  ELSE gcPc' = "sweeping" /\ gcLoc' = [gcLoc EXCEPT !.next = @ + 1]
  /\ UNCHANGED <<now, cache, QueuesExist, msgSentTotal, msgReceived,
                 msgDeleted, GCSchedules, pc, last, loop, nextMsg, nextQueue,
                 deliveries, succCount, closed,
                 msgSentBytes, pager, qpc, touched, boot, byName>>

\* A sweep in which nothing of the environment fails.
GCSweep == GCSweepCall("none")

\* Storage.Close: cancel the context of the GC goroutine.
Close ==
  /\ ~closed
  /\ closed' = TRUE
  /\ UNCHANGED <<msgSentBytes, pager, qpc, touched, boot, byName>>
  /\ UNCHANGED <<now, props, tables, schema, cache, QueuesExist, msgSentTotal,
                 msgReceived, msgDeleted, msgDropped, GCSchedules, pc, loc, last,
                 loop, nextMsg, nextQueue, deliveries, succCount, gcPc, gcLoc,
                 sweepLeft>>

\* Storage.gc, case <-ctx.Done(): return.
GCStop ==
  /\ closed
  /\ gcPc = "idle"
  /\ gcPc' = "stopped"
  /\ UNCHANGED <<now, props, tables, schema, cache, QueuesExist, msgSentTotal,
                 msgReceived, msgDeleted, msgDropped, GCSchedules, pc, loc, last,
                 loop, nextMsg, nextQueue, deliveries, succCount, gcLoc,
                 sweepLeft, closed,
                 msgSentBytes, pager, qpc, touched, boot, byName>>

(*************************** DescribeQueue *********************************)
\* The v1.DescribeQueueResponse scanned from a properties row (gc_at is
\* scanned and left out).
ScanProps(row) ==
  [id |-> row.id, name |-> row.name, createdAt |-> row.createdAt,
   retention |-> row.retention, visibility |-> row.visibility,
   maxAttempts |-> row.maxAttempts, policy |-> row.policy, dlq |-> row.dlq]

\* queueDescribeQueueProps(where): the rows that match the id when one is
\* given, else the name.
DescribeMatches(id, name) ==
  IF id # NoQueue THEN {q \in QueueIds : HasRow(q) /\ q = id}
  ELSE {q \in QueueIds : HasRow(q) /\ props[q].name = name}

\* Storage.DescribeQueue: the cache by id when an id is given, else by name
\* when a name is given; on a miss the database, whose answer is put into
\* the cache.  No id and no name: ErrInvalidInput; no row: sql.ErrNoRows.
DescribeQueue(c, id, name) ==
  /\ pc[c] = "idle"
  /\ LET req == [id |-> id, name |-> name]
         answer(r) == Returns(c, [NoReturn EXCEPT !.op = "DescribeQueue",
                                    !.status = "ok", !.req = req, !.out = <<r>>])
         refused(err) == Returns(c, [Failed("DescribeQueue", "error") EXCEPT
                                       !.err = err, !.req = req])
         found == DescribeMatches(id, name)
     IN IF id # NoQueue /\ Cached(id)
          THEN answer(propsToProto(cache[id])) /\ UNCHANGED <<cache, byName>>
        ELSE IF id = NoQueue /\ name # "" /\ CachedName(name)
          THEN answer(propsToProto(getByName(name))) /\ UNCHANGED <<cache, byName>>
        ELSE IF id = NoQueue /\ name = ""
          THEN refused("ErrInvalidInput") /\ UNCHANGED <<cache, byName>>
        ELSE IF found = {}
          THEN refused("ErrNoRows") /\ UNCHANGED <<cache, byName>>
        ELSE \E q \in found :
               /\ answer(ScanProps(props[q]))
               /\ put(propsFromProto(ScanProps(props[q])))
  /\ UNCHANGED <<now, props, tables, schema, QueuesExist, msgSentTotal, msgReceived,
                 msgDeleted, msgDropped, GCSchedules, pc, loc, nextMsg, nextQueue,
                 deliveries, succCount, gcPc, gcLoc, sweepLeft, closed,
                 msgSentBytes, pager, qpc, touched, boot>>

\* Storage.DescribeQueue in two steps.  The first runs to tx.Commit: a hit,
\* a refusal or no row returns at once as above; on a miss with a row the
\* scanned answer is held.  The second is s.cache.put and the return.
DescribeQueueTx(c, id, name) ==
  LET found == DescribeMatches(id, name)
      miss == /\ ~(id # NoQueue /\ Cached(id))
              /\ ~(id = NoQueue /\ name # "" /\ CachedName(name))
              /\ ~(id = NoQueue /\ name = "")
              /\ found # {}
  IN IF ~miss THEN DescribeQueue(c, id, name)
     ELSE /\ pc[c] = "idle"
          /\ \E q \in found :
               loc' = [loc EXCEPT ![c] = [IdleLoc EXCEPT !.q = q,
                                           !.rows = <<ScanProps(props[q])>>,
                                           !.req = [id |-> id, name |-> name]]]
          /\ pc' = [pc EXCEPT ![c] = "describePost"]
          /\ UNCHANGED <<now, props, tables, schema, cache, byName, QueuesExist,
                         msgSentTotal, msgReceived, msgDeleted, msgDropped,
                         GCSchedules, last, loop, nextMsg, nextQueue, deliveries,
                         succCount, gcPc, gcLoc, sweepLeft, closed, msgSentBytes,
                         pager, qpc, touched, boot>>

DescribeQueuePost(c) ==
  /\ pc[c] = "describePost"
  /\ put(propsFromProto(loc[c].rows[1]))
  /\ pc' = [pc EXCEPT ![c] = "idle"]
  /\ loc' = [loc EXCEPT ![c] = IdleLoc]
  /\ Returns(c, [NoReturn EXCEPT !.op = "DescribeQueue", !.status = "ok",
                                 !.req = loc[c].req, !.out = <<loc[c].rows[1]>>])
  /\ UNCHANGED <<now, props, tables, schema, QueuesExist, msgSentTotal, msgReceived,
                 msgDeleted, msgDropped, GCSchedules, nextMsg, nextQueue,
                 deliveries, succCount, gcPc, gcLoc, sweepLeft, closed,
                 msgSentBytes, pager, qpc, touched, boot>>

(**************************** PurgeQueue ***********************************)
\* A purge statement that deletes nothing.
purgeNothing(table) == table
\* queryPurgeQueue, a delete without a where clause: what is left of the table.
queryPurgeQueue(table) == {}

\* A purge whose delete statement runs on every table.
purgeEveryTable(q) == [Database EXCEPT !.tables = [p \in QueueIds |-> {}]]
\* The database after tx.ExecContext(ctx, queryPurgeQueue(queueID)): the
\* statement names the table of the queue and no other.
purgeQueueTable(q) == [Database EXCEPT !.tables[q] = queryPurgeQueue(tables[q])]

\* Storage.PurgeQueue: one transaction that counts the rows of the table and
\* deletes them all; the two numbers differ in no run of one transaction.
\* fail is "count", "delete", "commit" or "none".
PurgeQueue(c, q, fail) ==
  /\ pc[c] = "idle"
  /\ LET count == Cardinality(tables[q])
         purged == purgeQueueTable(q)
         rows == Cardinality(tables[q]) - Cardinality(purged.tables[q])
         refused(err, partial) ==
           /\ Becomes(Rollback(Database, partial))
           /\ Returns(c, [Failed("PurgeQueue", "error") EXCEPT
                             !.err = err, !.req = [queueId |-> q],
                             !.fault = IF err = "busy" THEN fail ELSE "none"])
           /\ UNCHANGED loc
     IN IF ~HasTable(q) THEN refused("no such table", Database)
        ELSE IF fail = "count" THEN refused("busy", Database)
        ELSE IF fail = "delete" THEN refused("busy", Database)
        ELSE IF rows # count THEN refused("none", purged)
        ELSE IF fail = "commit" THEN refused("busy", purged)
        ELSE /\ Becomes(purged)
             /\ loc' = IF count > 0 THEN MarkStale(c) ELSE loc
             /\ Returns(c, [NoReturn EXCEPT !.op = "PurgeQueue", !.status = "ok",
                                            !.req = [queueId |-> q]])
  /\ UNCHANGED <<now, cache, QueuesExist, msgSentTotal, msgReceived, msgDeleted,
                 msgDropped, GCSchedules, pc, nextMsg, nextQueue, deliveries,
                 succCount, gcPc, gcLoc, sweepLeft, closed, msgSentBytes, pager, qpc, touched, boot,
                 byName>>

(**************************** ListQueues ***********************************)
\* SQLite compares texts byte by byte.  The texts of the model, in that
\* order: the empty text; a created_at value 'YYYY-MM-DD HH:MM:SS', which
\* starts with a digit; the name "audit"; an xid, which today starts with
\* "c" or "d" and sorts by its time of generation; the name "orders".
EmptyText == [class |-> 0, n |-> 0]
TimeText(t) == [class |-> 1, n |-> t]
XidText(q) == [class |-> 3, n |-> q]
NameText(s) == IF s = "audit" THEN [class |-> 2, n |-> 0] ELSE [class |-> 4, n |-> 0]
TextLess(a, b) == a.class < b.class \/ (a.class = b.class /\ a.n < b.n)

\* queryListQueues: the column of the order-by clause, as a text value.
OrderKey(row, orderBy) ==
  IF orderBy = "ORDER_BY_NAME" THEN NameText(row.name)
  ELSE IF orderBy = "ORDER_BY_CREATED_AT" THEN TimeText(row.createdAt)
  ELSE XidText(row.id)

\* queryListQueues: the where clause, built only for the two named sort
\* directions and a non-empty cursor.
ListWhere(row, cursor, orderBy, sortBy) ==
  IF cursor = EmptyText THEN TRUE
  ELSE IF sortBy = "SORT_BY_ASC" THEN TextLess(cursor, OrderKey(row, orderBy))
  ELSE IF sortBy = "SORT_BY_DESC" THEN TextLess(OrderKey(row, orderBy), cursor)
  ELSE TRUE

\* queryListQueues: the direction is ascending only for SORT_BY_ASC.
InOrder(a, b, orderBy, sortBy) ==
  IF sortBy = "SORT_BY_ASC"
    THEN ~TextLess(OrderKey(b, orderBy), OrderKey(a, orderBy))
    ELSE ~TextLess(OrderKey(a, orderBy), OrderKey(b, orderBy))

\* The rows the list query may return: the matching rows in the order of the
\* sort key (rows with equal keys in any order), cut at the limit.
queryListQueues(limit, cursor, orderBy, sortBy) ==
  LET match == {props[q] : q \in {p \in QueueIds :
                   HasRow(p) /\ ListWhere(props[p], cursor, orderBy, sortBy)}}
      n == Cardinality(match)
      sorted == {f \in [1..n -> match] :
                   /\ \A i, j \in 1..n : f[i] = f[j] => i = j
                   /\ \A i, j \in 1..n : i < j => InOrder(f[i], f[j], orderBy, sortBy)}
  IN {SubSeq(f, 1, Min(limit, n)) : f \in sorted}

\* v1.ListQueuesRequest.
ListQueuesRequest(prefix, cursor, limit, orderBy, sortBy) ==
  [prefix |-> prefix, cursor |-> cursor, limit |-> limit,
   orderBy |-> orderBy, sortBy |-> sortBy]

\* Storage.ListQueues: the responses it may give.  One row more than the
\* page size is asked for; when it comes, it is cut off and the cursor is
\* the queue id of the last row kept.  The request's prefix is not read.
ListQueues(req) ==
  LET pageSize == IF req.limit <= 0 THEN defaultPageSize ELSE req.limit
      limit == pageSize + 1
  IN {IF Len(rows) > pageSize
        THEN [queues |-> [i \in 1..(Len(rows) - 1) |-> listQueuesInfo(rows[i])],
              nextCursor |-> XidText(rows[Len(rows) - 1].id),
              hasMore |-> TRUE]
        ELSE [queues |-> [i \in 1..Len(rows) |-> listQueuesInfo(rows[i])],
              nextCursor |-> EmptyText,
              hasMore |-> FALSE]
      : rows \in queryListQueues(limit, req.cursor, req.orderBy, req.sortBy)}

\* A caller that pages through the queues: every call takes the cursor the
\* previous response gave, until a response says there is no more.
PagerOff == [on |-> FALSE, req |-> ListQueuesRequest(<<>>, EmptyText, 0,
                                     "ORDER_BY_UNSPECIFIED", "SORT_BY_UNSPECIFIED"),
             pages |-> <<>>, more |-> FALSE]

ListStart(prefix, limit, orderBy, sortBy) ==
  /\ ~pager.on
  /\ pager' = [on |-> TRUE,
               req |-> ListQueuesRequest(prefix, EmptyText, limit, orderBy, sortBy),
               pages |-> <<>>, more |-> TRUE]
  /\ UNCHANGED <<now, props, tables, schema, cache, QueuesExist, msgSentTotal,
                 msgReceived, msgDeleted, msgDropped, GCSchedules, pc, loc, last,
                 loop, nextMsg, nextQueue, deliveries, succCount, gcPc, gcLoc,
                 sweepLeft, closed, msgSentBytes, byName, qpc, touched, boot>>

ListPage ==
  /\ pager.on /\ pager.more
  /\ Len(pager.pages) < MaxPages
  /\ \E resp \in ListQueues(pager.req) :
       pager' = [pager EXCEPT !.pages = Append(@, resp),
                              !.req.cursor = resp.nextCursor,
                              !.more = resp.hasMore]
  /\ UNCHANGED <<now, props, tables, schema, cache, QueuesExist, msgSentTotal,
                 msgReceived, msgDeleted, msgDropped, GCSchedules, pc, loc, last,
                 loop, nextMsg, nextQueue, deliveries, succCount, gcPc, gcLoc,
                 sweepLeft, closed, msgSentBytes, byName, qpc, touched, boot>>

(************************** the PlainQ facade ******************************)
\* The text of a queue id in a request: its length, the alphabet its
\* characters are of ("0-9a-v" is the alphabet of an xid, "0-9A-V" the same
\* in upper case, "other" has a character of neither) and the queue whose id
\* it spells when it is an xid.
IdText(len, alphabet, q) == [len |-> len, alphabet |-> alphabet, q |-> q]
EmptyId == IdText(0, "0-9a-v", NoQueue)

\* strings.ToLower
ToLower(t) == [t EXCEPT !.alphabet = IF @ = "0-9A-V" THEN "0-9a-v" ELSE @]

\* idkit.ValidateXID: twenty characters of the xid alphabet.
ValidateXID(t) == t.len = XIDLen /\ t.alphabet = "0-9a-v"

\* A validation that lets every id through.
validateNothing(queueID) == "nil"

\* validateQueueID: the error it returns, or "nil".
validateQueueID(queueID) ==
  IF queueID = EmptyId THEN "ErrInvalidID"
  ELSE IF ~ValidateXID(ToLower(queueID)) THEN "ErrInvalidID"
  ELSE "nil"

\* A request of the facade: a pointer to a message, which may be nil.  The
\* getter of a generated message returns the empty string on a nil pointer.
NilRequest == [isNil |-> TRUE, queueId |-> EmptyId]
Request(t) == [isNil |-> FALSE, queueId |-> t]
GetQueueId(r) == IF r.isNil THEN EmptyId ELSE r.queueId

\* validateQueueIDFromRequest: r is an interface value; the facade passes it
\* a pointer, so the interface itself is never nil.
validateQueueIDFromRequest(r) == validateQueueID(GetQueueId(r))

\* The facade returns the validation error and calls nothing.
Rejected(c, op, err) ==
  /\ pc[c] = "idle"
  /\ Returns(c, [Failed(op, "error") EXCEPT !.err = err])
  /\ UNCHANGED <<now, props, tables, schema, cache, QueuesExist, msgSentTotal,
                 msgReceived, msgDeleted, msgDropped, GCSchedules, pc, loc, nextMsg,
                 nextQueue, deliveries, succCount, gcPc, gcLoc, sweepLeft, closed,
                 msgSentBytes, pager, qpc, touched, boot, byName>>

\* PlainQ.DescribeQueue, DeleteQueue, PurgeQueue, Send, Receive and Delete:
\* validate the queue id of the request, then call the storage.
PlainQDescribeQueue(c, r) ==
  LET err == validateQueueIDFromRequest(r)
  IN IF err # "nil" THEN Rejected(c, "DescribeQueue", err)
     ELSE DescribeQueue(c, r.queueId.q, "")
PlainQDeleteQueue(c, r) ==
  LET err == validateQueueIDFromRequest(r)
  IN IF err # "nil" THEN Rejected(c, "DeleteQueue", err)
     ELSE DeleteQueueTx(c, r.queueId.q)
PlainQPurgeQueue(c, r) ==
  LET err == validateQueueIDFromRequest(r)
  IN IF err # "nil" THEN Rejected(c, "PurgeQueue", err)
     ELSE PurgeQueue(c, r.queueId.q, "none")
PlainQSend(c, r, bodies) ==
  LET err == validateQueueIDFromRequest(r)
  IN IF err # "nil" THEN Rejected(c, "Send", err)
     ELSE Send(c, r.queueId.q, bodies)
PlainQReceive(c, r, batchSize) ==
  LET err == validateQueueIDFromRequest(r)
  IN IF err # "nil" THEN Rejected(c, "Receive", err)
     ELSE ReceiveSelect(c, r.queueId.q, batchSize)
PlainQDelete(c, r, ids) ==
  LET err == validateQueueIDFromRequest(r)
  IN IF err # "nil" THEN Rejected(c, "Delete", err)
     ELSE Delete(c, r.queueId.q, ids)

(********************* QueuePropsCache, the object *************************)
\* The ids and names of the entries put into the cache under test: one id
\* more than the cache has room for.
CacheIds == 1..(CacheSize + 1)
CacheNames == Names \cup {"jobs"}

\* The zero value of QueueProps.
ZeroProps == [id |-> NoQueue, name |-> "", createdAt |-> ZeroTime, retention |-> 0,
              visibility |-> 0, maxAttempts |-> 0, policy |-> 0, dlq |-> NoQueue]

\* The entries the callers put, one per id: the queues 1 and 2 were made in
\* the same second, the later ones a second apart; the names go round.
CacheNameOf(id) == IF id % 3 = 1 THEN "orders" ELSE IF id % 3 = 2 THEN "audit" ELSE "jobs"
CacheEntry(id) ==
  [ZeroProps EXCEPT !.id = id, !.name = CacheNameOf(id),
                    !.createdAt = IF id <= 2 THEN 0 ELSE id - 2]
CacheEntries == {CacheEntry(id) : id \in CacheIds}

\* A map key that is absent.
NoElem == 0

\* NewQueuePropsCache.  elems holds the list elements made so far, an element
\* being named by its place in elems; props is the recency list from front to
\* back; byID and byName lead to elements.
NewQueuePropsCache(size) ==
  [size |-> IF size = 0 THEN queuePropsCacheSize ELSE size,
   byID |-> [id \in CacheIds |-> NoElem],
   byName |-> [name \in CacheNames |-> NoElem],
   props |-> <<>>,
   elems |-> <<>>]

\* container/list: Remove and MoveToFront do nothing for an element that is
\* not in the list; Back is the last element.
ListRemove(l, e) == SelectSeq(l, LAMBDA x : x # e)
MoveToFront(l, e) == IF e \in Range(l) THEN <<e>> \o ListRemove(l, e) ELSE l
Back(l) == l[Len(l)]

\* QueuePropsCache.put: with the list at capacity the back element leaves
\* the list; the new element is pushed to the back and both maps are set.
cachePut(C, p) ==
  LET kept == IF Len(C.props) = C.size THEN ListRemove(C.props, Back(C.props))
              ELSE C.props
      e == Len(C.elems) + 1
  IN [C EXCEPT !.props = Append(kept, e), !.elems = Append(@, p),
               !.byID[p.id] = e, !.byName[p.name] = e]

\* QueuePropsCache.delete: nothing when the id is not in byID.
cacheDelete(C, id, name) ==
  IF C.byID[id] = NoElem THEN C
  ELSE [C EXCEPT !.props = ListRemove(@, C.byID[id]),
                 !.byID[id] = NoElem, !.byName[name] = NoElem]

\* QueuePropsCache.getByID and getByName: a hit moves the element to the
\* front of the list.
cacheGet(C, e) ==
  IF e = NoElem THEN [cache |-> C, props |-> ZeroProps, ok |-> FALSE]
  ELSE [cache |-> [C EXCEPT !.props = MoveToFront(@, e)],
        props |-> C.elems[e], ok |-> TRUE]
cacheGetByID(C, id) == cacheGet(C, C.byID[id])
cacheGetByName(C, name) == cacheGet(C, C.byName[name])

\* The order of two strings, for the names in use.
NameRank(name) == IF name = "" THEN 0 ELSE IF name = "audit" THEN 1
                  ELSE IF name = "jobs" THEN 2 ELSE 3

\* sortProps, the comparison function: negative, zero or positive.
sortPropsCmp(a, b, orderBy, sortBy) ==
  LET up == sortBy # "SORT_BY_DESC"
      cmp(equal, greater) ==
        IF equal THEN 0
        ELSE IF greater THEN (IF up THEN 1 ELSE 0 - 1)
        ELSE (IF up THEN 0 - 1 ELSE 1)
  IN IF orderBy = "ORDER_BY_NAME"
       THEN cmp(a.name = b.name, NameRank(a.name) > NameRank(b.name))
     ELSE IF orderBy = "ORDER_BY_CREATED_AT"
       THEN cmp(a.createdAt = b.createdAt, a.createdAt > b.createdAt)
     ELSE cmp(a.id = b.id, a.id > b.id)

\* sortProps: slices.SortFunc leaves the slice in an order in which no
\* element compares greater than a later one; elements that compare equal
\* stand in any order.
sortProps(snapshot, orderBy, sortBy) ==
  LET n == Len(snapshot)
      perms == {f \in [1..n -> 1..n] : \A i, j \in 1..n : f[i] = f[j] => i = j}
  IN {[i \in 1..n |-> snapshot[f[i]]] : f \in
        {g \in perms : \A i, j \in 1..n :
           i < j => sortPropsCmp(snapshot[g[i]], snapshot[g[j]], orderBy, sortBy) <= 0}}

\* QueuePropsCache.list with the slice made for n entries: the entries byID
\* leads to are copied, in the order the map gives them, CreatedAt left at
\* its zero value, then sorted.  With more entries than n the copy runs past
\* the slice and panics; with fewer the rest of the slice stays zero.
cacheList(C, n, orderBy, sortBy) ==
  LET keys == {id \in CacheIds : C.byID[id] # NoElem}
      m == Cardinality(keys)
      copy(id) == [C.elems[C.byID[id]] EXCEPT !.createdAt = ZeroTime]
      orders == {f \in [1..m -> keys] : \A i, j \in 1..m : f[i] = f[j] => i = j}
      filled == {[i \in 1..n |-> IF i <= m THEN copy(f[i]) ELSE ZeroProps] : f \in orders}
  IN IF m > n THEN {[panicked |-> TRUE, props |-> <<>>]}
     ELSE {[panicked |-> FALSE, props |-> s] :
             s \in UNION {sortProps(snap, orderBy, sortBy) : snap \in filled}}

(******************* calls on the QueuePropsCache **************************)
\* The list options a caller sets; list() starts from ORDER_BY_ID, SORT_BY_ASC.
OrderByChoices == {"ORDER_BY_UNSPECIFIED", "ORDER_BY_ID", "ORDER_BY_NAME",
                   "ORDER_BY_CREATED_AT"}
SortByChoices == {"SORT_BY_UNSPECIFIED", "SORT_BY_ASC", "SORT_BY_DESC"}

\* The calls made on the cache.
CacheCalls ==
  {[op |-> "put", props |-> p] : p \in CacheEntries}
  \cup {[op |-> "delete", id |-> id, name |-> CacheNameOf(id)] : id \in CacheIds}
  \cup {[op |-> "getByID", id |-> id] : id \in CacheIds}
  \cup {[op |-> "getByName", name |-> name] : name \in CacheNames}
  \cup {[op |-> "list", orderBy |-> o, sortBy |-> d] :
          o \in OrderByChoices, d \in SortByChoices}

\* sync.RWMutex: who holds c.mu for writing, who for reading.
WriteLocked(c) == pc[c] \in {"cache.put", "cache.delete"}
ReadLocked(c) == pc[c] \in {"cache.getByID", "cache.getByName", "cache.list"}

\* The element a get in progress leads to.
GetElem(c) ==
  IF pc[c] = "cache.getByID" THEN qpc.byID[loc[c].req.id]
  ELSE IF pc[c] = "cache.getByName" THEN qpc.byName[loc[c].req.name]
  ELSE NoElem

\* The shared structures the call of c, where it stands, writes and reads.
CacheWrites(c) ==
  IF WriteLocked(c) THEN {"props", "byID", "byName"}
  ELSE IF GetElem(c) # NoElem THEN {"props"}
  ELSE {}
CacheReads(c) ==
  IF pc[c] = "cache.getByID" THEN {"byID"}
  ELSE IF pc[c] = "cache.getByName" THEN {"byName"}
  ELSE IF pc[c] \in {"cache.list", "cache.listLen"} THEN {"byID"}
  ELSE {}

EngineVars == <<now, props, tables, schema, cache, QueuesExist, msgSentTotal,
                msgReceived, msgDeleted, msgDropped, GCSchedules, nextMsg, nextQueue,
                deliveries, succCount, gcPc, gcLoc, sweepLeft, closed, msgSentBytes,
                pager, byName, boot>>

\* A cache call up to where it holds the lock: put and delete take c.mu.Lock,
\* getByID and getByName c.mu.RLock; list first reads len(c.byID) with no
\* lock held.
CacheEnter(c, call) ==
  /\ pc[c] = "idle"
  /\ call.op = "put" => Len(qpc.elems) < MaxPuts
  /\ call.op \in {"put", "delete"} =>
       \A d \in Clients : ~WriteLocked(d) /\ ~ReadLocked(d)
  /\ call.op \in {"getByID", "getByName"} => \A d \in Clients : ~WriteLocked(d)
  /\ pc' = [pc EXCEPT ![c] = IF call.op = "list" THEN "cache.listLen"
                             ELSE "cache." \o call.op]
  /\ loc' = [loc EXCEPT ![c] = [IdleLoc EXCEPT !.req = call]]
  /\ UNCHANGED <<last, loop, qpc, touched>>
  /\ UNCHANGED EngineVars

\* list: props := make([]QueueProps, len(c.byID)), then c.mu.RLock.  Read
\* while another call writes the map, the length is any number.
CacheListLock(c) ==
  /\ pc[c] = "cache.listLen"
  /\ \E n \in 0..Cardinality(CacheIds) :
       /\ (\A d \in Clients : ~WriteLocked(d)) =>
            n = Cardinality({id \in CacheIds : qpc.byID[id] # NoElem})
       /\ loc' = [loc EXCEPT ![c].limit = n]
  /\ pc' = [pc EXCEPT ![c] = "cache.listLocked"]
  /\ UNCHANGED <<last, loop, qpc, touched>>
  /\ UNCHANGED EngineVars

CacheListRLock(c) ==
  /\ pc[c] = "cache.listLocked"
  /\ \A d \in Clients : ~WriteLocked(d)
  /\ pc' = [pc EXCEPT ![c] = "cache.list"]
  /\ UNCHANGED <<loc, last, loop, qpc, touched>>
  /\ UNCHANGED EngineVars

\* The lists two unsynchronised writers may leave: any arrangement of any
\* of the elements.
AnyList(C) ==
  UNION {{l \in [1..k -> 1..Len(C.elems)] : IsInjective(l)} : k \in 0..Len(C.elems)}

Touch(e) == Append(ListRemove(touched, e), e)

\* A cache call from the lock to its return.
CacheLeave(c) ==
  /\ WriteLocked(c) \/ ReadLocked(c)
  /\ LET call == loc[c].req
         base == [NoReturn EXCEPT !.op = pc[c], !.status = "ok"]
         raced == /\ GetElem(c) # NoElem
                  /\ \E d \in Clients \ {c} : GetElem(d) # NoElem
     IN CASE pc[c] = "cache.put" ->
               /\ qpc' = cachePut(qpc, call.props)
               /\ touched' = Touch(Len(qpc.elems) + 1)
               /\ Returns(c, base)
          [] pc[c] = "cache.delete" ->
               /\ qpc' = cacheDelete(qpc, call.id, call.name)
               /\ touched' = IF qpc.byID[call.id] = NoElem THEN touched
                             ELSE ListRemove(touched, qpc.byID[call.id])
               /\ Returns(c, base)
          [] pc[c] \in {"cache.getByID", "cache.getByName"} ->
               LET r == IF pc[c] = "cache.getByID" THEN cacheGetByID(qpc, call.id)
                        ELSE cacheGetByName(qpc, call.name)
               IN /\ IF raced
                       THEN \E l \in AnyList(qpc) : qpc' = [qpc EXCEPT !.props = l]
                       ELSE qpc' = r.cache
                  /\ touched' = IF r.ok THEN Touch(GetElem(c)) ELSE touched
                  /\ Returns(c, [base EXCEPT !.out = IF r.ok THEN <<r.props>> ELSE <<>>])
          [] pc[c] = "cache.list" ->
               /\ \E r \in cacheList(qpc, loc[c].limit, call.orderBy, call.sortBy) :
                    Returns(c, [base EXCEPT !.out = r.props,
                                  !.status = IF r.panicked THEN "panic" ELSE "ok"])
               /\ UNCHANGED <<qpc, touched>>
  /\ pc' = [pc EXCEPT ![c] = "idle"]
  /\ loc' = [loc EXCEPT ![c] = IdleLoc]
  /\ UNCHANGED EngineVars

(********************************* New *************************************)
\* The queue ids and names a database file given to New may hold; the names
\* are unique (queue_name_uindex).
BootIds == 1..MaxRows
BootNameOf(id) == <<"queue", id>>
BootNames == {BootNameOf(id) : id \in BootIds}

\* No New in progress.
BootOff == [pc |-> "off"]

\* The v1.DescribeQueueResponse listQueues scans from the row of id, and the
\* QueueProps fillCache makes of it.
BootQueue(id) == [ZeroProps EXCEPT !.id = id, !.name = BootNameOf(id), !.createdAt = 0]

\* The ids of S from the highest down, and from the lowest up.
IdsDesc(S) ==
  [i \in 1..Cardinality(S) |->
     CHOOSE x \in S : Cardinality({y \in S : y > x}) = i - 1]
IdsAsc(S) ==
  [i \in 1..Cardinality(S) |->
     CHOOSE x \in S : Cardinality({y \in S : y < x}) = i - 1]

\* queryListQueues ordered by queue_id, run on the rows: the where clause on
\* the cursor is written only under SORT_BY_ASC and SORT_BY_DESC; with no
\* sortBy the order is desc and there is no where clause.
queryListQueuesByID(rows, limit, cursor, sortBy) ==
  LET matching ==
        IF cursor = NoQueue THEN rows
        ELSE IF sortBy = "SORT_BY_ASC" THEN {id \in rows : id > cursor}
        ELSE IF sortBy = "SORT_BY_DESC" THEN {id \in rows : id < cursor}
        ELSE rows
      ordered == IF sortBy = "SORT_BY_ASC" THEN IdsAsc(matching) ELSE IdsDesc(matching)
  IN SubSeq(ordered, 1, IF Len(ordered) < limit THEN Len(ordered) ELSE limit)

\* Storage.ListQueues as fillCache calls it, with the cursor alone: Limit 0
\* gives defaultPageSize, one row more is asked for, and when it comes the
\* page ends before it and NextCursor is the id of queues[len(queues)-2].
ListQueuesForFill(rows, cursor) ==
  LET pageSize == defaultPageSize
      queues == queryListQueuesByID(rows, pageSize + 1, cursor, "SORT_BY_UNSPECIFIED")
  IN IF Len(queues) > pageSize
       THEN [queues |-> SubSeq(queues, 1, Len(queues) - 1),
             nextCursor |-> queues[Len(queues) - 1], hasMore |-> TRUE]
       ELSE [queues |-> queues, nextCursor |-> NoQueue, hasMore |-> FALSE]

\* New called on a database file that holds the queues of rows: the fresh
\* Storage with its cache and its observer, before countQueues.
NewCalled(rows) ==
  [pc |-> "countQueues", rows |-> rows, count |-> 0, cursor |-> NoQueue,
   pages |-> 0, err |-> "none", queues |-> <<>>, hasMore |-> FALSE,
   cache |-> [NewQueuePropsCache(queuePropsCacheSize) EXCEPT
                !.byID = [id \in BootIds |-> NoElem],
                !.byName = [name \in BootNames |-> NoElem]]]

\* count, countErr := s.countQueues(prepareCtx)
NewCountQueues ==
  /\ boot.pc = "countQueues"
  /\ boot' = [boot EXCEPT !.pc = "seed", !.count = Cardinality(boot.rows)]
  /\ UNCHANGED <<now, props, tables, schema, cache, QueuesExist, msgSentTotal,
                 msgReceived, msgDeleted, msgDropped, GCSchedules, pc, loc, last,
                 loop, nextMsg, nextQueue, deliveries, succCount, gcPc, gcLoc,
                 sweepLeft, closed, msgSentBytes, pager, byName, qpc, touched>>

\* if s.observer.QueuesExist().Get() <= 0 { s.observer.QueuesExist().Add(count) }
NewSeedQueuesExist ==
  /\ boot.pc = "seed"
  /\ QueuesExist' = IF QueuesExist <= 0 THEN QueuesExist + boot.count ELSE QueuesExist
  /\ boot' = [boot EXCEPT !.pc = "fillCache"]
  /\ UNCHANGED <<now, props, tables, schema, cache, msgSentTotal,
                 msgReceived, msgDeleted, msgDropped, GCSchedules, pc, loc, last,
                 loop, nextMsg, nextQueue, deliveries, succCount, gcPc, gcLoc,
                 sweepLeft, closed, msgSentBytes, pager, byName, qpc, touched>>

\* fillCache(ctx, cursor) up to the loop: s.ListQueues with the cursor.
\* MaxFillPages calls of ListQueues fit into cacheFillingTimeout.
FillCache ==
  /\ boot.pc = "fillCache"
  /\ boot.pages < MaxFillPages
  /\ LET page == ListQueuesForFill(boot.rows, boot.cursor)
     IN boot' = [boot EXCEPT !.queues = page.queues, !.hasMore = page.hasMore,
                             !.cursor = page.nextCursor, !.pages = @ + 1,
                             !.pc = "put"]
  /\ UNCHANGED <<now, props, tables, schema, cache, QueuesExist, msgSentTotal,
                 msgReceived, msgDeleted, msgDropped, GCSchedules, pc, loc, last,
                 loop, nextMsg, nextQueue, deliveries, succCount, gcPc, gcLoc,
                 sweepLeft, closed, msgSentBytes, pager, byName, qpc, touched>>

\* One round of the loop: s.cache.put of the next queue of the page.
FillCachePut ==
  /\ boot.pc = "put"
  /\ boot.queues # <<>>
  /\ boot' = [boot EXCEPT !.cache = cachePut(@, BootQueue(Head(boot.queues))),
                          !.queues = Tail(@)]
  /\ UNCHANGED <<now, props, tables, schema, cache, QueuesExist, msgSentTotal,
                 msgReceived, msgDeleted, msgDropped, GCSchedules, pc, loc, last,
                 loop, nextMsg, nextQueue, deliveries, succCount, gcPc, gcLoc,
                 sweepLeft, closed, msgSentBytes, pager, byName, qpc, touched>>

\* After the loop: with HasMore fillCache calls itself with NextCursor, else
\* it returns nil and New goes on.
FillCacheNext ==
  /\ boot.pc = "put"
  /\ boot.queues = <<>>
  /\ boot' = [boot EXCEPT !.pc = IF boot.hasMore THEN "fillCache" ELSE "startGC"]
  /\ UNCHANGED <<now, props, tables, schema, cache, QueuesExist, msgSentTotal,
                 msgReceived, msgDeleted, msgDropped, GCSchedules, pc, loc, last,
                 loop, nextMsg, nextQueue, deliveries, succCount, gcPc, gcLoc,
                 sweepLeft, closed, msgSentBytes, pager, byName, qpc, touched>>

\* fillCache called after prepareCtx ran out: ListQueues fails and New
\* returns nil and "filling cache: ..." with the deadline error.
FillCacheTimeout ==
  /\ boot.pc = "fillCache"
  /\ boot.pages = MaxFillPages
  /\ boot' = [boot EXCEPT !.pc = "failed", !.err = "context deadline exceeded"]
  /\ UNCHANGED <<now, props, tables, schema, cache, QueuesExist, msgSentTotal,
                 msgReceived, msgDeleted, msgDropped, GCSchedules, pc, loc, last,
                 loop, nextMsg, nextQueue, deliveries, succCount, gcPc, gcLoc,
                 sweepLeft, closed, msgSentBytes, pager, byName, qpc, touched>>

\* go s.gc(ctx); return &s, nil
NewStartGC ==
  /\ boot.pc = "startGC"
  /\ gcPc' = "idle"
  /\ boot' = [boot EXCEPT !.pc = "returned"]
  /\ UNCHANGED <<now, props, tables, schema, cache, QueuesExist, msgSentTotal,
                 msgReceived, msgDeleted, msgDropped, GCSchedules, pc, loc, last,
                 loop, nextMsg, nextQueue, deliveries, succCount, gcLoc,
                 sweepLeft, closed, msgSentBytes, pager, byName, qpc, touched>>

(************************* the engine after New ****************************)
\* The engine at time t, no call in progress, over a database file that holds
\* the queues of rows (queue id -> row or NoRow) with the table layouts of
\* sch.  The queues of made were created by CreateQueue since New, whose
\* cache entries are those CreateQueue put; the others were there at New,
\* where fillCache loaded them through listQueues.  QueuesExist is the row
\* count (seeded by New, raised by each CreateQueue), the GC goroutine waits
\* for its ticker.  The consumers are the clients that run the consumer loop.
Started(rows, sch, t, consumers, made) ==
  /\ now = t
  /\ props = rows
  /\ schema = sch
  /\ tables = [q \in QueueIds |-> {}]
  /\ cache = [q \in QueueIds |->
                IF rows[q].id = NoQueue THEN NoEntry
                ELSE IF q \in made THEN CreateQueueProps(rows[q])
                ELSE listQueuesInfo(rows[q])]
  /\ QueuesExist = Cardinality({q \in QueueIds : rows[q].id # NoQueue})
  /\ msgSentTotal = [q \in QueueIds |-> 0]
  /\ msgReceived = [q \in QueueIds |-> 0]
  /\ msgDeleted = [q \in QueueIds |-> 0]
  /\ msgDropped = [q \in QueueIds |-> 0]
  /\ GCSchedules = 0
  /\ pc = [c \in Clients |-> "idle"]
  /\ loc = [c \in Clients |-> IdleLoc]
  /\ last = NoReturn
  /\ loop = [c \in Clients |->
               IF c \in consumers THEN [state |-> "receive", held |-> <<>>] ELSE LoopOff]
  /\ nextMsg = 1
  /\ nextQueue = 1 + Cardinality({q \in QueueIds : rows[q].id # NoQueue})
  /\ deliveries = [n \in 1..MaxMsgs |-> <<>>]
  /\ succCount = [n \in 1..MaxMsgs |-> 0]
  /\ gcPc = "idle"
  /\ gcLoc = IdleGC
  /\ sweepLeft = [q \in QueueIds |-> NoSweep]
  /\ closed = FALSE
  /\ msgSentBytes = [q \in QueueIds |-> 0]
  /\ pager = PagerOff
  /\ qpc = NewQueuePropsCache(CacheSize)
  /\ touched = <<>>
  /\ boot = BootOff
  /\ byName = [s \in Names |->
                 IF \E q \in QueueIds : rows[q].id # NoQueue /\ rows[q].name = s
                   THEN CHOOSE q \in QueueIds : rows[q].id # NoQueue /\ rows[q].name = s
                   ELSE NoQueue]

\* New: the engine right after construction.
New(rows, sch, t, consumers) == Started(rows, sch, t, consumers, {})

(********************* messages of one queue, two clients ******************)
VisibilityChoices == {1}
AttemptChoices == {1}
SendInputs == {<<"a">>, <<"a", "b">>}
BatchSizes == {0, 2}

\* The one queue of the message specifications, and the two clients whose
\* calls on it interleave.
Q1 == 1
Pair == {1, 2}

\* The database holds queue Q1.  Every table CreateQueue makes carries the
\* update trigger; a table without it is one made by other means (the file
\* edited by hand, the trigger dropped).
InitMsg ==
  \E v \in VisibilityChoices, a \in AttemptChoices, sch \in {"table", "table+trigger"} :
    New([q \in QueueIds |->
           IF q = Q1 THEN PropsRow(Q1, "orders", 0, msgRetentionPeriod, v, a,
                                   EVICTION_POLICY_DROP, NoQueue)
           ELSE NoRow],
        [q \in QueueIds |-> IF q = Q1 THEN sch ELSE "none"], 0, {})

NextMsg ==
  \/ \E c \in Pair, bodies \in SendInputs : Send(c, Q1, bodies)
  \/ \E c \in Pair, n \in BatchSizes : ReceiveSelect(c, Q1, n)
  \/ \E c \in Pair : ReceiveUpdate(c)
  \/ Tick

SpecMsg == InitMsg /\ [][NextMsg]_vars

(******************* messages received until they retire ******************)
\* An engine built one second before time 0.
CacheStart == 0 - 1

\* The database holds queue Q1, made when the engine starts: the run is one
\* second longer than those of InitMsg, long enough for a message to use up
\* its attempts.
InitRetry ==
  \E v \in VisibilityChoices, a \in AttemptChoices, sch \in {"table", "table+trigger"} :
    New([q \in QueueIds |->
           IF q = Q1 THEN PropsRow(Q1, "orders", CacheStart, msgRetentionPeriod, v, a,
                                   EVICTION_POLICY_DROP, NoQueue)
           ELSE NoRow],
        [q \in QueueIds |-> IF q = Q1 THEN sch ELSE "none"], CacheStart, {})

SpecRetry == InitRetry /\ [][NextMsg]_vars

(************************** consumer loops *********************************)
\* A visibility timeout no run outlasts.
LongVisibility == MaxTime + 1

\* Queue Q1 with a long visibility timeout and the clients 1..k as consumers.
InitLoop ==
  \E k \in Clients, sch \in {"table", "table+trigger"} :
    New([q \in QueueIds |->
           IF q = Q1 THEN PropsRow(Q1, "orders", 0, msgRetentionPeriod, LongVisibility,
                                   maxReceiveAttempts, EVICTION_POLICY_DROP, NoQueue)
           ELSE NoRow],
        [q \in QueueIds |-> IF q = Q1 THEN sch ELSE "none"], 0, 1..k)

\* The one Send of the scenario; the consumers start after it.
LoopSend == nextMsg = 1 /\ \E bodies \in SendInputs : Send(1, Q1, bodies)
LoopReceive(c) == nextMsg > 1 /\ loop[c].state = "receive" /\ ReceiveSelect(c, Q1, 1)
LoopDelete(c) == loop[c].state = "delete" /\ Delete(c, Q1, loop[c].held)

NextLoop ==
  \/ LoopSend
  \/ \E c \in Clients : LoopReceive(c)
  \/ \E c \in Clients : ReceiveUpdate(c)
  \/ \E c \in Clients : LoopDelete(c)
  \/ Tick

SpecLoop == InitLoop /\ [][NextLoop]_vars

(************************ garbage collection runs **************************)
\* The engine at time 0 with two queues: Q1, made (and last swept) more than
\* the GC timeout before, with retention, visibility timeout and attempts of
\* 1, and the queue Q2 made at time 0, which is Q1's dead-letter queue when
\* Q1's policy is DeadLetter.  Q1 was made by a CreateQueue of this engine or
\* was there when the engine started.
Q1MadeAt == 0 - GcTimeoutSecs - 1
Q2 == 2
PolicyChoices == {EVICTION_POLICY_UNSPECIFIED, EVICTION_POLICY_DROP,
                  EVICTION_POLICY_DEAD_LETTER}

InitGC ==
  \E policy \in PolicyChoices, sch \in {"table", "table+trigger"},
     made \in {{}, {Q1}} :
    Started([q \in QueueIds |->
           IF q = Q1 THEN PropsRow(Q1, "orders", Q1MadeAt, 1, 1, 1, policy,
                            IF policy = EVICTION_POLICY_DEAD_LETTER THEN Q2 ELSE NoQueue)
           ELSE IF q = Q2 THEN PropsRow(Q2, "audit", 0, msgRetentionPeriod,
                                 msgVisibilityTimeout, maxReceiveAttempts,
                                 EVICTION_POLICY_DROP, NoQueue)
           ELSE NoRow],
        [q \in QueueIds |-> IF q = Q1 THEN sch ELSE IF q = Q2 THEN "table+trigger"
                            ELSE "none"],
        0, {}, made)

NextGC ==
  \/ \E bodies \in SendInputs : Send(1, Q1, bodies)
  \/ \E n \in BatchSizes : ReceiveSelect(1, Q1, n)
  \/ ReceiveUpdate(1)
  \/ Tick
  \/ GCTick
  \/ GCPage
  \/ GCSweep
  \/ Close
  \/ GCStop

SpecGC == InitGC /\ [][NextGC]_vars

(************************* queues made and deleted *************************)
NameInputs == Names \cup {""}

\* The database holds queue Q1 or no queue.
InitQueues ==
  \E k \in {0, 1} :
    New([q \in QueueIds |->
           IF q <= k THEN PropsRow(q, "orders", 0, msgRetentionPeriod,
                                   msgVisibilityTimeout, maxReceiveAttempts,
                                   EVICTION_POLICY_DROP, NoQueue)
           ELSE NoRow],
        [q \in QueueIds |-> IF q <= k THEN "table+trigger" ELSE "none"], 0, {})

\* The statement of a CreateQueue or of a DeleteQueue that the environment
\* makes fail.
CreateFaults == {"none", "insert", "table", "commit"}
DeleteFaults == {"none", "delete", "drop", "commit"}

NextQueues ==
  \/ \E c \in Clients, name \in NameInputs, policy \in PolicyChoices,
        fail \in CreateFaults :
       CreateQueueCall(c, name, 0, 0, 0, policy, NoQueue, fail)
  \/ \E c \in Clients : CreateQueuePost(c)
  \/ \E c \in Clients, q \in QueueIds, fail \in DeleteFaults :
       DeleteQueueCall(c, q, fail)
  \/ \E c \in Clients : DeleteQueuePost(c)

SpecQueues == InitQueues /\ [][NextQueues]_vars

(******************** queues made, described and deleted *******************)
\* Retention, visibility timeout and attempts of a CreateQueue request: all
\* left at zero, or all given.
FieldChoices == {<<0, 0, 0>>, <<60, 10, 3>>}

\* The database holds queue Q1, whose table has the trigger or not, or no
\* queue.
InitAdmin ==
  \E k \in {0, 1}, sch \in {"table", "table+trigger"} :
    New([q \in QueueIds |->
           IF q <= k THEN PropsRow(q, "orders", 0, msgRetentionPeriod,
                                   msgVisibilityTimeout, maxReceiveAttempts,
                                   EVICTION_POLICY_DROP, NoQueue)
           ELSE NoRow],
        [q \in QueueIds |-> IF q <= k THEN sch ELSE "none"], 0, {})

\* Clients create and delete queues; client 1 also describes queues and
\* sends, receives and deletes messages.  A CreateQueue names a dead-letter
\* queue only with the policy DeadLetter: no id, or an id handed out before.
NextAdmin ==
  \/ \E c \in Clients, name \in NameInputs, f \in FieldChoices,
        policy \in PolicyChoices, dlq \in 0..(nextQueue - 1) :
       /\ policy # EVICTION_POLICY_DEAD_LETTER => dlq = NoQueue
       /\ CreateQueueTx(c, name, f[1], f[2], f[3], policy, dlq)
  \/ \E c \in Clients : CreateQueuePost(c)
  \/ \E c \in Clients, q \in QueueIds : DeleteQueueTx(c, q)
  \/ \E c \in Clients : DeleteQueuePost(c)
  \/ \E id \in QueueIds \cup {NoQueue}, name \in NameInputs : DescribeQueue(1, id, name)
  \/ \E q \in QueueIds : Send(1, q, <<"a">>)
  \/ \E q \in QueueIds : ReceiveSelect(1, q, 1)
  \/ ReceiveUpdate(1)
  \/ \E q \in QueueIds : Delete(1, q, <<ULID(1)>>)

SpecAdmin == InitAdmin /\ [][NextAdmin]_vars

(********************** messages sent and purged ***************************)
SendBodies == {<<"a">>, <<"cc">>, <<"a", "cc">>}
PurgeFaults == {"none", "count", "delete", "commit"}

\* The database holds queue Q1.
InitSend ==
  New([q \in QueueIds |->
         IF q = Q1 THEN PropsRow(Q1, "orders", 0, msgRetentionPeriod,
                                 msgVisibilityTimeout, maxReceiveAttempts,
                                 EVICTION_POLICY_DROP, NoQueue)
         ELSE NoRow],
      [q \in QueueIds |-> IF q = Q1 THEN "table+trigger" ELSE "none"], 0, {})

NextSend ==
  \/ \E c \in Clients, q \in QueueIds, bodies \in SendBodies :
       \E fail \in 0..(Len(bodies) + 1) : SendCall(c, q, bodies, fail)
  \/ \E c \in Clients, q \in QueueIds, fail \in PurgeFaults : PurgeQueue(c, q, fail)
  \/ Tick

SpecSend == InitSend /\ [][NextSend]_vars

(******************* messages of two queues, one purged ********************)
\* The database holds the queues Q1 and Q2.
InitPurge ==
  New([q \in QueueIds |->
         IF q \in {Q1, Q2}
           THEN PropsRow(q, IF q = Q1 THEN "orders" ELSE "audit", 0,
                         msgRetentionPeriod, msgVisibilityTimeout,
                         maxReceiveAttempts, EVICTION_POLICY_DROP, NoQueue)
           ELSE NoRow],
      [q \in QueueIds |-> IF q \in {Q1, Q2} THEN "table+trigger" ELSE "none"], 0, {})

NextPurge ==
  \/ \E c \in Clients, q \in QueueIds, bodies \in SendBodies : Send(c, q, bodies)
  \/ \E c \in Clients, q \in QueueIds, fail \in PurgeFaults : PurgeQueue(c, q, fail)
  \/ Tick

SpecPurge == InitPurge /\ [][NextPurge]_vars

(********************** requests through the facade ************************)
\* The requests a caller sends: nil, with an empty id, with a text that is
\* no xid (too short, or of the right length with a wrong character), with
\* the xid of a queue, and with an xid in upper case.  The upper-case texts
\* are spellings of ids that no queue has.
Requests ==
  {NilRequest, Request(EmptyId)}
    \cup {Request(IdText(10, a, q)) : a \in {"0-9a-v", "other"}, q \in QueueIds}
    \cup {Request(IdText(XIDLen, "other", q)) : q \in QueueIds}
    \cup {Request(IdText(XIDLen, "0-9a-v", q)) : q \in QueueIds}
    \cup {Request(IdText(XIDLen, "0-9A-V", Q2))}

\* The database holds queue Q1 and no queue Q2.
InitFacade ==
  New([q \in QueueIds |->
         IF q = Q1 THEN PropsRow(Q1, "orders", 0, msgRetentionPeriod, 1, 2,
                                 EVICTION_POLICY_DROP, NoQueue)
         ELSE NoRow],
      [q \in QueueIds |-> IF q = Q1 THEN "table" ELSE "none"], 0, {})

NextFacade ==
  \/ \E r \in Requests : PlainQDescribeQueue(1, r)
  \/ \E r \in Requests : PlainQDeleteQueue(1, r)
  \/ DeleteQueuePost(1)
  \/ \E r \in Requests : PlainQPurgeQueue(1, r)
  \/ \E r \in Requests : PlainQSend(1, r, <<"a">>)
  \/ \E r \in Requests : PlainQReceive(1, r, 1)
  \/ ReceiveUpdate(1)
  \/ \E r \in Requests : PlainQDelete(1, r, <<ULID(1)>>)
  \/ Tick

SpecFacade == InitFacade /\ [][NextFacade]_vars

(***************** messages sent, received, deleted and swept **************)
\* The ids a Delete names: the id of the first message, and a text of the
\* length of an xid that is the id of no message.
DeleteIds == {<<ULID(1)>>, <<[len |-> XIDLen, n |-> 1]>>}

NextCount ==
  \/ \E bodies \in SendInputs : Send(1, Q1, bodies)
  \/ \E n \in BatchSizes : ReceiveSelect(1, Q1, n)
  \/ ReceiveUpdate(1)
  \/ \E ids \in DeleteIds : Delete(1, Q1, ids)
  \/ Tick
  \/ GCTick
  \/ GCPage
  \/ GCSweep

SpecCount == InitGC /\ [][NextCount]_vars

(*********************** sweeps that fail midway ***************************)
SweepFaults == {"none", "update", "commit"}

NextSweep ==
  \/ \E bodies \in SendInputs : Send(1, Q1, bodies)
  \/ \E n \in BatchSizes : ReceiveSelect(1, Q1, n)
  \/ ReceiveUpdate(1)
  \/ Tick
  \/ GCTick
  \/ GCPage
  \/ \E fail \in SweepFaults : GCSweepCall(fail)

SpecSweep == InitGC /\ [][NextSweep]_vars

(****************** queues made and deleted beside the GC ******************)
\* The engine starts one second before the GC timeout of Q1 runs out; the
\* database holds Q1 with policy Drop.
InitCache ==
  Started([q \in QueueIds |->
             IF q = Q1 THEN PropsRow(Q1, "orders", Q1MadeAt, 1, 1, 1,
                                     EVICTION_POLICY_DROP, NoQueue)
             ELSE NoRow],
          [q \in QueueIds |-> IF q = Q1 THEN "table+trigger" ELSE "none"],
          CacheStart, {}, {})

NextCache ==
  \/ \E c \in Clients : CreateQueueTx(c, "audit", 1, 1, 1, EVICTION_POLICY_DROP, NoQueue)
  \/ \E c \in Clients : CreateQueuePost(c)
  \/ \E c \in Clients, q \in QueueIds : DeleteQueueTx(c, q)
  \/ \E c \in Clients : DeleteQueuePost(c)
  \/ Tick
  \/ GCTick
  \/ GCPage
  \/ GCSweep

SpecCache == InitCache /\ [][NextCache]_vars

\* CreateQueue, DeleteQueue and DescribeQueue by id, each of them in its two
\* steps, called by the clients beside each other.
NextDescribe ==
  \/ \E c \in Clients : CreateQueueTx(c, "audit", 1, 1, 1, EVICTION_POLICY_DROP, NoQueue)
  \/ \E c \in Clients : CreateQueuePost(c)
  \/ \E c \in Clients, q \in QueueIds : DeleteQueueTx(c, q)
  \/ \E c \in Clients : DeleteQueuePost(c)
  \/ \E c \in Clients, q \in QueueIds : DescribeQueueTx(c, q, "")
  \/ \E c \in Clients : DescribeQueuePost(c)

SpecDescribe == InitCache /\ [][NextDescribe]_vars

\* New called on a database file with any of the queues of BootIds; the
\* observer is fresh and no GC goroutine runs.  New runs its statements one
\* after the other and nothing makes it wait.
InitBoot ==
  /\ \E rows \in SUBSET BootIds : boot = NewCalled(rows)
  /\ now = 0
  /\ props = [q \in QueueIds |-> NoRow]
  /\ schema = [q \in QueueIds |-> "none"]
  /\ tables = [q \in QueueIds |-> {}]
  /\ cache = [q \in QueueIds |-> NoEntry]
  /\ byName = [s \in Names |-> NoQueue]
  /\ QueuesExist = 0
  /\ msgSentTotal = [q \in QueueIds |-> 0]
  /\ msgReceived = [q \in QueueIds |-> 0]
  /\ msgDeleted = [q \in QueueIds |-> 0]
  /\ msgDropped = [q \in QueueIds |-> 0]
  /\ msgSentBytes = [q \in QueueIds |-> 0]
  /\ GCSchedules = 0
  /\ pc = [c \in Clients |-> "idle"]
  /\ loc = [c \in Clients |-> IdleLoc]
  /\ last = NoReturn
  /\ loop = [c \in Clients |-> LoopOff]
  /\ nextMsg = 1
  /\ nextQueue = 1
  /\ deliveries = [n \in 1..MaxMsgs |-> <<>>]
  /\ succCount = [n \in 1..MaxMsgs |-> 0]
  /\ gcPc = "none"
  /\ gcLoc = IdleGC
  /\ sweepLeft = [q \in QueueIds |-> NoSweep]
  /\ closed = FALSE
  /\ pager = PagerOff
  /\ qpc = NewQueuePropsCache(CacheSize)
  /\ touched = <<>>

NextBoot ==
  \/ NewCountQueues
  \/ NewSeedQueuesExist
  \/ FillCache
  \/ FillCachePut
  \/ FillCacheNext
  \/ FillCacheTimeout
  \/ NewStartGC

SpecBoot == InitBoot /\ [][NextBoot]_vars /\ WF_vars(NextBoot)

(********************* the cache used by one caller ************************)
\* An empty cache of capacity CacheSize, beside an engine with no queue.
InitQpc ==
  New([q \in QueueIds |-> NoRow], [q \in QueueIds |-> "none"], 0, {})

NextQpc ==
  \/ \E call \in CacheCalls : CacheEnter(1, call)
  \/ CacheListLock(1)
  \/ CacheListRLock(1)
  \/ CacheLeave(1)

SpecQpc == InitQpc /\ [][NextQpc]_vars

(********************* the cache used by two callers ***********************)
\* The calls of the two callers: on the queues 1 and 2, lists in the order
\* list() starts from.
PairCalls ==
  {call \in CacheCalls :
     /\ call.op = "put" => call.props.id <= 2
     /\ call.op \in {"delete", "getByID"} => call.id <= 2
     /\ call.op = "getByName" => call.name \in Names
     /\ call.op = "list" => call.orderBy = "ORDER_BY_ID" /\ call.sortBy = "SORT_BY_ASC"}

NextQpcPair ==
  \/ \E c \in Pair, call \in PairCalls : CacheEnter(c, call)
  \/ \E c \in Pair : CacheListLock(c)
  \/ \E c \in Pair : CacheListRLock(c)
  \/ \E c \in Pair : CacheLeave(c)

SpecQpcPair == InitQpc /\ [][NextQpcPair]_vars

(******************** the queues the GC takes for a tick *******************)
\* The engine at time 0 with the queues Q1 and Q2 of policy Drop.  Q1 was
\* last swept more than the GC timeout before; Q2 was last swept then too,
\* or at time 0.
InitDue ==
  \E swept2 \in {Q1MadeAt, 0} :
    New([q \in QueueIds |->
           IF q = Q1 THEN PropsRow(Q1, "orders", Q1MadeAt, 1, 1, 1,
                                   EVICTION_POLICY_DROP, NoQueue)
           ELSE IF q = Q2 THEN PropsRow(Q2, "audit", swept2, 1, 1, 1,
                                        EVICTION_POLICY_DROP, NoQueue)
           ELSE NoRow],
        [q \in QueueIds |-> IF q \in {Q1, Q2} THEN "table" ELSE "none"], 0, {})

\* The GC goroutine is scheduled again and again: a turn of the loop of
\* queuesForGC or a sweep that can run does run.
SpecDue == InitDue /\ [][NextGC]_vars /\ WF_vars(GCPage) /\ WF_vars(GCSweep)

(************************* queues listed in pages **************************)
Prefixes == {<<>>, <<"o">>, <<"a", "u">>}
LimitChoices == {0, 1, 2}
OrderBys == {"ORDER_BY_ID", "ORDER_BY_NAME", "ORDER_BY_CREATED_AT"}
SortBys == {"SORT_BY_ASC", "SORT_BY_DESC"}

\* The database holds the queues 1..k, under different names, a later queue
\* made no earlier than the queue before it.
InitList ==
  \E k \in 0..NumQueues :
    \E name \in [1..k -> Names], at \in [1..k -> {0 - 1, 0}] :
      /\ \A i, j \in 1..k : i < j => (name[i] # name[j] /\ at[i] <= at[j])
      /\ New([q \in QueueIds |->
                IF q <= k THEN PropsRow(q, name[q], at[q], msgRetentionPeriod,
                                        msgVisibilityTimeout, maxReceiveAttempts,
                                        EVICTION_POLICY_DROP, NoQueue)
                ELSE NoRow],
             [q \in QueueIds |-> IF q <= k THEN "table+trigger" ELSE "none"], 0, {})

NextList ==
  \/ \E prefix \in Prefixes, limit \in LimitChoices, orderBy \in OrderBys,
        sortBy \in SortBys : ListStart(prefix, limit, orderBy, sortBy)
  \/ ListPage

SpecList == InitList /\ [][NextList]_vars

(***************************** properties **********************************)
Sent == 1..(nextMsg - 1)
Quiescent == \A c \in Clients : pc[c] = "idle"
LoopEnded(c) == loop[c].state \in {"empty", "failed"}

C2_SingleConsumerGetsEachOnce ==
  ((\A c \in Clients \ {1} : loop[c].state = "off") /\ LoopEnded(1)) =>
    /\ loop[1].state = "empty"
    /\ \A n \in Sent : Len(deliveries[n]) = 1

C5_DeleteOfReceivedSucceeds ==
  last.op = "Delete" =>
    /\ last.status = "ok"
    /\ last.out = last.ids
    /\ \A m \in tables[Q1] : m.id \notin Range(last.ids)

\* C6: once the loops of all consumers have ended, every sent id has been
\* reported successful by exactly one Delete.
C6_ConsumersDeleteEachOnce ==
  (\A c \in Clients : loop[c].state = "off" \/ LoopEnded(c)) =>
    \A n \in Sent : succCount[n] = 1

\* C7: what a committed sweep of a queue with policy Drop leaves in the queue
\* has retries of at most maxReceiveAttempts and a retention period that has
\* not elapsed.
C7_DropSweepLeavesNoExpired ==
  \A q \in QueueIds :
    LET s == sweepLeft[q]
    IN (s.info.id # NoQueue /\ s.info.policy = EVICTION_POLICY_DROP) =>
         \A m \in s.rows : /\ m.retries <= s.info.maxAttempts
                           /\ m.createdAt + s.info.retention > s.time

\* C8: the sweep of a queue with policy DeadLetter does not fail, and what it
\* leaves in the queue has retries below maxReceiveAttempts and a retention
\* period that has not elapsed.
C8_DeadLetterSweepMoves ==
  /\ (cache[Q1].policy = EVICTION_POLICY_DEAD_LETTER /\ ~closed) => gcPc # "dead"
  /\ \A q \in QueueIds :
       LET s == sweepLeft[q]
       IN (s.info.id # NoQueue /\ s.info.policy = EVICTION_POLICY_DEAD_LETTER) =>
            \A m \in s.rows : /\ m.retries < s.info.maxAttempts
                              /\ m.createdAt + s.info.retention > s.time

\* C9: the GC goroutine ends only after Close.
C9_GCLoopSurvives == gcPc \in {"dead", "stopped"} => closed

\* C10: when no call is in flight, QueuesExist is the number of rows of
\* queue_properties.
C10_QueuesExistIsRowCount ==
  Quiescent => QueuesExist = Cardinality({q \in QueueIds : HasRow(q)})

\* No call is in flight after a CreateQueue and a DeleteQueue succeeded and
\* a DeleteQueue failed.
C10_Witness ==
  /\ Quiescent
  /\ last.op = "DeleteQueue" /\ last.status = "error"
  /\ nextQueue > 2
  /\ QueuesExist = 1

\* C12: in every reachable state the properties table has a row for queue
\* id Q exactly when the message table of Q exists, whichever statement of a
\* CreateQueue or of a DeleteQueue failed before.
C12_RowIffTable == \A q \in QueueIds : HasRow(q) <=> HasTable(q)

\* A DeleteQueue failed at its drop statement, after its delete of the
\* properties row, and a CreateQueue failed at its create-table statement.
C12_Witness ==
  \/ /\ last.op = "DeleteQueue" /\ last.fault = "drop"
     /\ HasRow(last.req.queueId)
  \/ /\ last.op = "CreateQueue" /\ last.fault = "table"
     /\ QueuesExist > 0

\* What DescribeQueue is to answer for the queue q that a CreateQueue with
\* request p made at time t: p with its zero fields replaced by the defaults.
Described(p, q, t) ==
  [id |-> q, name |-> p.name, createdAt |-> t,
   retention |-> IF p.retention = 0 THEN msgRetentionPeriod ELSE p.retention,
   visibility |-> IF p.visibility = 0 THEN msgVisibilityTimeout ELSE p.visibility,
   maxAttempts |-> IF p.maxAttempts = 0 THEN maxReceiveAttempts ELSE p.maxAttempts,
   policy |-> IF p.policy = EVICTION_POLICY_UNSPECIFIED THEN EVICTION_POLICY_DROP
              ELSE p.policy,
   dlq |-> p.dlq]

\* C11: when a CreateQueue with request p has returned queue id Q, the answer
\* DescribeQueue gives from the cache and the answer it gives from the
\* database are both p with the defaults in place of its zero fields and
\* with the creation time of Q.
C11_DescribeAfterCreate ==
  (last.op = "CreateQueue" /\ last.status = "ok") =>
    LET q == last.out[1].queueId
        want == Described(last.req, q, last.t)
    IN /\ Cached(q) => propsToProto(cache[q]) = want
       /\ HasRow(q) => ScanProps(props[q]) = want

\* The error classes of the specification, by what the returned error wraps.
IsInvalidArgument(r) == r.err \in {"ErrInvalidArgument", "ErrInvalidInput"}
IsNotFound(r) == r.err \in {"ErrNotFound", "ErrNoRows"}
IsAlreadyExists(r) == r.err = "ErrAlreadyExists"
NameTaken(name) == \E p \in QueueIds : HasRow(p) /\ props[p].name = name
QueueState == <<props, schema, tables, cache, byName, QueuesExist>>

\* C13: a CreateQueue whose name an existing queue has fails with
\* AlreadyExists and adds no properties row, no table, no cache entry and
\* nothing to QueuesExist; no two queues ever have the same name, however
\* CreateQueue calls interleave.
C13_DuplicateNameRejected ==
  /\ [][\A c \in Clients, name \in Names, f \in FieldChoices,
          policy \in PolicyChoices, dlq \in QueueIds \cup {NoQueue} :
          (/\ NameTaken(name) /\ last'.op = "CreateQueue"
           /\ CreateQueueTx(c, name, f[1], f[2], f[3], policy, dlq))
            => (IsAlreadyExists(last') /\ UNCHANGED QueueState)]_vars
  /\ [](\A p, q \in QueueIds :
          (HasRow(p) /\ HasRow(q) /\ props[p].name = props[q].name) => p = q)

\* C14: a CreateQueue with policy DeadLetter whose deadLetterQueueId is
\* absent or names no existing queue is rejected with InvalidArgument and
\* creates nothing; so every stored queue with policy DeadLetter names a
\* dead-letter queue, and not itself.
C14_DeadLetterTargetChecked ==
  /\ [][\A c \in Clients, name \in Names, f \in FieldChoices,
          dlq \in QueueIds \cup {NoQueue} :
          (/\ dlq \in QueueIds => ~HasRow(dlq)
           /\ ~NameTaken(name)
           /\ pc[c] = "idle" /\ (pc'[c] = "idle" => last'.op = "CreateQueue")
           /\ CreateQueueTx(c, name, f[1], f[2], f[3], EVICTION_POLICY_DEAD_LETTER, dlq))
            => (IsInvalidArgument(last') /\ UNCHANGED QueueState
                /\ pc'[c] = "idle")]_vars
  /\ [](\A q \in QueueIds :
          (HasRow(q) /\ props[q].policy = EVICTION_POLICY_DEAD_LETTER)
            => props[q].dlq \in QueueIds \ {q})

\* C15: DescribeQueue with neither or both of queueId and queueName is
\* rejected with InvalidArgument; with one of them that matches no queue it
\* returns NotFound; in both cases the cache stays as it is.
C15_DescribeRejects ==
  [][\A id \in QueueIds \cup {NoQueue}, name \in NameInputs :
       (last'.op = "DescribeQueue" /\ DescribeQueue(1, id, name)) =>
         /\ ((id = NoQueue) = (name = ""))
              => (IsInvalidArgument(last') /\ UNCHANGED <<cache, byName>>)
         /\ ((id = NoQueue) # (name = "") /\ DescribeMatches(id, name) = {})
              => (IsNotFound(last') /\ UNCHANGED <<cache, byName>>)]_vars

\* C16: a DeleteQueue of an id that names no queue returns NotFound and
\* changes nothing; when a DeleteQueue of Q has returned, the row, the
\* table and the cache entry of Q are gone and QueuesExist is one less; a
\* DescribeQueue, Send, Receive or Delete on an id that names no queue
\* reports NotFound.
C16_DeletedQueueIsGone ==
  [][/\ \A c \in Clients, q \in QueueIds :
          (~HasRow(q) /\ last'.op = "DeleteQueue" /\ DeleteQueueTx(c, q))
            => (IsNotFound(last') /\ UNCHANGED QueueState)
     /\ \A c \in Clients :
          (last'.op = "DeleteQueue" /\ DeleteQueuePost(c))
            => (/\ props'[loc[c].q] = NoRow /\ schema'[loc[c].q] = "none"
                /\ tables'[loc[c].q] = {} /\ cache'[loc[c].q] = NoEntry
                /\ QueuesExist' = QueuesExist - 1)
     /\ \A q \in QueueIds :
          (/\ ~HasRow(q)
           /\ \/ last'.op = "DescribeQueue" /\ DescribeQueue(1, q, "")
              \/ last'.op = "Send" /\ Send(1, q, <<"a">>)
              \/ last'.op = "Receive" /\ ReceiveSelect(1, q, 1)
              \/ last'.op = "Delete" /\ Delete(1, q, <<ULID(1)>>))
            => IsNotFound(last')]_vars

\* C17: a Send that succeeds stores one message per entry, returns their
\* fresh, pairwise distinct ids in the order of the entries, and adds the
\* number of messages to MessagesSent and the sizes of the bodies to
\* MessagesSentBytes; a Send that fails stores nothing and leaves both
\* counters as they were.
C17_SendAllOrNothing ==
  [][\A c \in Clients, q \in QueueIds, bodies \in SendBodies :
       \A fail \in 0..(Len(bodies) + 1) :
         (last'.op = "Send" /\ SendCall(c, q, bodies, fail)) =>
           IF last'.status = "ok"
             THEN /\ Len(last'.out) = Len(bodies) /\ IsInjective(last'.out)
                  /\ \A i \in 1..Len(bodies) :
                       /\ ~\E m \in tables[q] : m.id = last'.out[i]
                       /\ \E m \in tables'[q] :
                            m.id = last'.out[i] /\ m.body = bodies[i]
                  /\ Cardinality(tables'[q]) = Cardinality(tables[q]) + Len(bodies)
                  /\ msgSentTotal'[q] = msgSentTotal[q] + Len(bodies)
                  /\ msgSentBytes'[q] = msgSentBytes[q] + SumLen(bodies, Len(bodies))
             ELSE UNCHANGED <<tables, msgSentTotal, msgSentBytes>>]_vars

\* The queue ids of the pages a caller was given, in the order given.
RECURSIVE Listed(_)
Listed(k) ==
  IF k = 0 THEN <<>>
  ELSE Listed(k - 1) \o [j \in 1..Len(pager.pages[k].queues) |->
                           pager.pages[k].queues[j].id]
Existing == {q \in QueueIds : HasRow(q)}

\* C18: a caller that pages through ListQueues with a fixed limit, order
\* and direction and no prefix gets at most limit queues per page, hasMore
\* exactly when queues remain after the page, the sort key of the page's
\* last queue as nextCursor, no queue twice, the queues in the requested
\* order and, when a page says there is no more, every existing queue.
C18_PagesCoverQueuesOnce ==
  (pager.on /\ pager.req.prefix = <<>>) =>
    LET n == Len(pager.pages)
        all == Listed(n)
        limit == IF pager.req.limit = 0 THEN defaultPageSize ELSE pager.req.limit
    IN /\ \A k \in 1..n :
            LET page == pager.pages[k]
            IN /\ Len(page.queues) <= limit
               /\ page.hasMore <=> Range(Listed(k)) # Existing
               /\ page.hasMore =>
                    /\ page.queues # <<>>
                    /\ page.nextCursor =
                         OrderKey(props[page.queues[Len(page.queues)].id],
                                  pager.req.orderBy)
       /\ IsInjective(all)
       /\ \A i, j \in 1..Len(all) :
            i < j => InOrder(props[all[i]], props[all[j]],
                             pager.req.orderBy, pager.req.sortBy)
       /\ ~pager.more => Range(all) = Existing

\* The letters of the queue names, and strings.HasPrefix on them.
Spell == [orders |-> <<"o", "r", "d", "e", "r", "s">>,
          audit |-> <<"a", "u", "d", "i", "t">>]
HasPrefix(name, prefix) ==
  /\ Len(prefix) <= Len(Spell[name])
  /\ SubSeq(Spell[name], 1, Len(prefix)) = prefix

\* C19: a caller that pages through ListQueues with a prefix gets only
\* queues whose name starts with the prefix and, when a page says there is
\* no more, has got every such queue.
C19_PrefixRestrictsList ==
  (pager.on /\ pager.req.prefix # <<>>) =>
    LET all == Listed(Len(pager.pages))
    IN /\ \A i \in 1..Len(all) : HasPrefix(props[all[i]].name, pager.req.prefix)
       /\ ~pager.more =>
            \A q \in Existing :
              HasPrefix(props[q].name, pager.req.prefix) => q \in Range(all)

\* C20: a PurgeQueue of an existing queue in which no statement fails
\* succeeds; a PurgeQueue that succeeds leaves the queue without messages
\* and everything else as it was, so on an empty queue it changes nothing;
\* one that fails changes nothing.
C20_PurgeEmptiesQueue ==
  [][\A c \in Clients, q \in QueueIds, fail \in PurgeFaults :
       (last'.op = "PurgeQueue" /\ PurgeQueue(c, q, fail)) =>
         /\ (HasRow(q) /\ fail = "none") => last'.status = "ok"
         /\ last'.status = "ok" =>
              /\ tables'[q] = {}
              /\ \A p \in QueueIds \ {q} : tables'[p] = tables[p]
              /\ UNCHANGED <<props, schema, cache, byName, QueuesExist>>
         /\ (last'.status = "ok" /\ tables[q] = {}) => UNCHANGED tables
         /\ last'.status # "ok" => UNCHANGED tables]_vars

\* A PurgeQueue succeeded on a queue to which messages had been sent, and
\* the queue is empty.
C20_Witness ==
  /\ last.op = "PurgeQueue" /\ last.status = "ok"
  /\ msgSentTotal[last.req.queueId] > 0
  /\ tables[last.req.queueId] = {}

\* C21: a PurgeQueue of queue Q, whether it succeeds or fails, leaves the
\* properties rows, the cache, QueuesExist and the messages of every queue
\* other than Q as they were; of the messages of Q it adds none.
C21_PurgeTouchesOnlyItsQueue ==
  [][\A c \in Clients, q \in QueueIds, fail \in PurgeFaults :
       (last'.op = "PurgeQueue" /\ PurgeQueue(c, q, fail)) =>
         /\ UNCHANGED <<props, schema, cache, byName, QueuesExist>>
         /\ \A p \in QueueIds \ {q} : tables'[p] = tables[p]
         /\ tables'[q] \subseteq tables[q]]_vars

\* A PurgeQueue of one queue succeeded while the other queue holds a message.
C21_Witness ==
  /\ last.op = "PurgeQueue" /\ last.status = "ok"
  /\ \E p \in QueueIds \ {last.req.queueId} : tables[p] # {}

\* C22: when Close has returned the GC goroutine has exited, no step of the
\* GC changes a table or a properties row from then on, and a Send or a
\* Receive invoked from then on is refused.
C22_CloseStopsEngine ==
  /\ [](closed => gcPc \in {"stopped", "dead"})
  /\ [][(closed /\ (GCTick \/ GCPage \/ GCSweep)) => UNCHANGED <<tables, props>>]_vars
  /\ [][(closed /\ pc[1] = "idle" /\ pc'[1] = "idle" /\ last'.op \in {"Send", "Receive"}
          /\ \/ \E bodies \in SendInputs : Send(1, Q1, bodies)
             \/ \E n \in BatchSizes : ReceiveSelect(1, Q1, n))
           => last'.status # "ok"]_vars

\* The requests the specification wants refused: nil, or with a queue id
\* that is empty or is not twenty characters of the xid alphabet, in either
\* case of the letters.
InvalidID(r) ==
  \/ r.isNil
  \/ r.queueId.len # XIDLen
  \/ r.queueId.alphabet \notin {"0-9a-v", "0-9A-V"}
StorageState == <<props, tables, schema, cache, byName, QueuesExist, msgSentTotal,
                  msgSentBytes, msgReceived, msgDeleted, msgDropped, nextMsg,
                  deliveries, succCount, pc, loc>>
FacadeCall(c, r) ==
  \/ last'.op = "DescribeQueue" /\ PlainQDescribeQueue(c, r)
  \/ (pc'[c] = "idle" => last'.op = "DeleteQueue") /\ PlainQDeleteQueue(c, r)
  \/ last'.op = "PurgeQueue" /\ PlainQPurgeQueue(c, r)
  \/ last'.op = "Send" /\ PlainQSend(c, r, <<"a">>)
  \/ (pc'[c] = "idle" => last'.op = "Receive") /\ PlainQReceive(c, r, 1)
  \/ last'.op = "Delete" /\ PlainQDelete(c, r, <<ULID(1)>>)
StorageCall(c, q) ==
  \/ last'.op = "DescribeQueue" /\ DescribeQueue(c, q, "")
  \/ (pc'[c] = "idle" => last'.op = "DeleteQueue") /\ DeleteQueueTx(c, q)
  \/ last'.op = "PurgeQueue" /\ PurgeQueue(c, q, "none")
  \/ last'.op = "Send" /\ Send(c, q, <<"a">>)
  \/ (pc'[c] = "idle" => last'.op = "Receive") /\ ReceiveSelect(c, q, 1)
  \/ last'.op = "Delete" /\ Delete(c, q, <<ULID(1)>>)

\* C23: a call of DescribeQueue, DeleteQueue, PurgeQueue, Send, Receive or
\* Delete through the facade whose request is nil or carries an empty or
\* malformed queue id returns InvalidID and leaves the state of the storage
\* as it was; with a well-formed id the call is the call of the storage on
\* that id, and what it returns is not InvalidID.
C23_FacadeValidatesQueueId ==
  [][\A c \in Clients, r \in Requests :
       (pc[c] = "idle" /\ FacadeCall(c, r)) =>
         IF InvalidID(r)
           THEN /\ last'.status = "error" /\ last'.err = "ErrInvalidID"
                /\ UNCHANGED StorageState
           ELSE /\ StorageCall(c, r.queueId.q)
                /\ pc'[c] = "idle" => last'.err # "ErrInvalidID"]_vars

\* A call with a malformed id was refused after a message had been sent
\* through the facade, and the message is still there.
C23_Witness ==
  /\ last.op \in {"PurgeQueue", "DeleteQueue", "Delete"}
  /\ last.err = "ErrInvalidID"
  /\ tables[Q1] # {}

\* The messages of q a Receive could select now but for their retries.
VisibleNow(q) == {m \in tables[q] : m.visibleAt <= now}

IsUnavailable(r) == r.err = "ErrUnavailable"

\* C25: a CreateQueue or a DeleteQueue that returns an error because a
\* statement or the commit failed returns Unavailable, AlreadyExists or
\* NotFound, and the database is as it was before the call.
C25_DatabaseErrorsUnavailable ==
  [][(last' # last /\ last'.fault # "none") =>
       /\ IsUnavailable(last') \/ IsAlreadyExists(last') \/ IsNotFound(last')
       /\ UNCHANGED <<props, schema, tables>>]_vars

\* The queues whose last sweep is more than the GC timeout before t.
Due(t) == {q \in QueueIds : HasRow(q) /\ props[q].gcAt < t - GcTimeoutSecs}

\* C26: queuesForGC, once entered, returns; and what it returns holds each
\* queue whose last sweep is more than the GC timeout old once, and no other.
C26_QueuesForGCTerminates ==
  /\ (gcPc = "paging") ~> (gcPc # "paging")
  /\ [][(gcPc = "paging" /\ gcPc' \in {"sweeping", "idle"}) =>
          LET queues == IF gcPc' = "sweeping" THEN gcLoc'.queues ELSE <<>>
          IN IsInjective(queues) /\ Range(queues) = Due(now)]_vars

\* C27: a sweep of queue Q that commits sets gc_at of Q to the time of the
\* sweep, so that Q is not due before the GC timeout has passed since; a
\* sweep that fails leaves the messages of every queue and gc_at of Q as
\* they were.
C27_SweepStampsQueue ==
  /\ [][\A fail \in SweepFaults :
          (gcPc = "sweeping" /\ GCSweepCall(fail)) =>
            LET q == gcLoc.queues[gcLoc.next]
            IN IF gcPc' # "dead"
                 THEN /\ props'[q].gcAt = now
                      /\ \A t \in now..(now + GcTimeoutSecs) :
                           ~(props'[q].gcAt < t - GcTimeoutSecs)
                 ELSE UNCHANGED <<tables, props>>]_vars
  /\ [](\A q \in QueueIds :
          (sweepLeft[q].info.id # NoQueue /\ q \in Due(now))
            => now > sweepLeft[q].time + GcTimeoutSecs)

\* A sweep of Q1 committed at the first tick, the second tick has come and
\* gone without a sweep of Q1, and gc_at of Q1 is the time of the sweep.
C27_Witness ==
  /\ sweepLeft[Q1].info.id # NoQueue
  /\ props[Q1].gcAt = sweepLeft[Q1].time
  /\ GCSchedules = 2 /\ gcPc = "idle"

\* The messages the Drop policy is to remove from queue q at time t.
ToDrop(q, t) ==
  {m \in tables[q] : \/ m.retries >= props[q].maxAttempts
                     \/ m.createdAt + props[q].retention <= t}

\* C28: a sweep of a queue Q of policy Drop that commits removes from Q the
\* messages with retries >= maxReceiveAttempts or createdAt + retention <=
\* now and no other, leaves the messages of the other queues as they were,
\* and adds the number of removed messages to MessagesDropped(Q).
C28_DropSweepRemovesExactly ==
  [][\A fail \in SweepFaults :
       (gcPc = "sweeping" /\ GCSweepCall(fail) /\ gcPc' # "dead") =>
         LET q == gcLoc.queues[gcLoc.next]
         IN props[q].policy = EVICTION_POLICY_DROP =>
              /\ tables'[q] = tables[q] \ ToDrop(q, now)
              /\ \A p \in QueueIds \ {q} : tables'[p] = tables[p]
              /\ msgDropped'[q] = msgDropped[q] + Cardinality(ToDrop(q, now))]_vars

\* C29: a queue whose stored eviction policy is unspecified is reported
\* with policy Drop by DescribeQueue, from the cache and from the database,
\* and by ListQueues; and its sweep, unless Close interrupts it, commits and
\* leaves what the sweep of a Drop queue leaves.
C29_UnspecifiedIsDrop ==
  /\ [](\A q \in QueueIds :
          (HasRow(q) /\ props[q].policy = EVICTION_POLICY_UNSPECIFIED) =>
            /\ ScanProps(props[q]).policy = EVICTION_POLICY_DROP
            /\ Cached(q) => propsToProto(cache[q]).policy = EVICTION_POLICY_DROP
            /\ listQueuesInfo(props[q]).policy = EVICTION_POLICY_DROP)
  /\ [][(gcPc = "sweeping" /\ ~closed /\ GCSweep) =>
          LET q == gcLoc.queues[gcLoc.next]
          IN props[q].policy = EVICTION_POLICY_UNSPECIFIED =>
               /\ gcPc' # "dead"
               /\ tables'[q] = queryDropMessages(tables[q], props[q].maxAttempts,
                                                 props[q].retention, now)]_vars

\* C30: a sweep of a queue that has a properties row finds the queue's
\* properties, and so does a DeleteQueue of a queue that has a properties
\* row: it gets as far as its transaction instead of returning the error of
\* a lookup that found nothing.
C30_LookupFindsExistingQueue ==
  /\ [][(gcPc = "sweeping" /\ ~closed /\ GCSweep) =>
          LET q == gcLoc.queues[gcLoc.next]
          IN HasRow(q) => (Cached(q) /\ gcPc' # "dead")]_vars
  /\ [][\A c \in Clients, q \in QueueIds :
          (HasRow(q) /\ DeleteQueueTx(c, q)) => pc'[c] = "deletePost"]_vars

C33_DeleteReportsPerItem ==
  [][\A ids \in DeleteIds :
       (HasTable(Q1) /\ Delete(1, Q1, ids)) =>
         /\ last'.status = "ok"
         /\ Range(last'.out) = {id \in Range(ids) : \E m \in tables[Q1] : m.id = id}
         /\ tables'[Q1] = {m \in tables[Q1] : m.id \notin Range(ids)}
         /\ msgDeleted'[Q1] = msgDeleted[Q1] + Cardinality(tables[Q1])
                                             - Cardinality(tables'[Q1])]_vars

C35_CacheBoundedAndCoherent ==
  LET hits == {id \in CacheIds : cacheGetByID(qpc, id).ok}
      named == {name \in CacheNames : cacheGetByName(qpc, name).ok}
  IN /\ Cardinality(hits) <= qpc.size
     /\ \A id \in hits :
          /\ qpc.byID[id] \in Range(qpc.props)
          /\ qpc.byName[cacheGetByID(qpc, id).props.name] = qpc.byID[id]
     /\ \A name \in named :
          qpc.byID[cacheGetByName(qpc, name).props.id] = qpc.byName[name]
     /\ \A e \in Range(qpc.props) : qpc.byID[qpc.elems[e].id] = e

\* C36: a put on a full cache evicts one entry, the one whose last put or
\* get lies furthest back among the entries in the cache; an entry found by
\* getByID or getByName later than every other put or get is not the one
\* evicted.
C36_EvictsLeastRecentlyUsed ==
  [][(pc[1] = "cache.put" /\ Len(qpc.props) = qpc.size /\ CacheLeave(1)) =>
       LET evicted == Range(qpc.props) \ Range(qpc'.props)
           rank(e) == CHOOSE i \in 1..Len(touched) : touched[i] = e
       IN /\ Cardinality(evicted) = 1
          /\ \A e \in evicted :
               /\ \A o \in Range(qpc.props) : rank(e) <= rank(o)
               /\ (/\ qpc.size > 1
                   /\ last.op \in {"cache.getByID", "cache.getByName"}
                   /\ last.out # <<>>) => e # touched[Len(touched)]]_vars

\* C37: no two calls write the same structure of the cache (recency list,
\* id index, name index) at the same time, none reads one while another
\* writes it, and a call that holds only the read lock writes none.
C37_CacheRaceFree ==
  /\ \A c \in Clients : \A d \in Clients \ {c} :
       CacheWrites(c) \cap (CacheWrites(d) \cup CacheReads(d)) = {}
  /\ \A c \in Clients : ReadLocked(c) => CacheWrites(c) = {}

\* C38: when no call is in progress, every cache entry, by id and by name,
\* is that of a queue whose properties row is in the database with that id
\* and that name.
C38_CacheEntriesHaveRows ==
  Quiescent =>
    /\ \A q \in QueueIds : Cached(q) =>
         HasRow(q) /\ props[q].id = cache[q].id /\ props[q].name = cache[q].name
    /\ \A s \in Names : CachedName(s) =>
         HasRow(byName[s]) /\ props[byName[s]].name = s

\* C39: list returns every cached entry once, in the order asked for: by
\* id, by name or by CreatedAt, ascending or descending, by id ascending
\* when nothing is asked for, entries of one CreatedAt by id ascending; for
\* an empty cache the list is empty.
C39_ListSortedSnapshot ==
  [][(pc[1] = "cache.list" /\ CacheLeave(1)) =>
       LET call == loc[1].req
           out == last'.out
           cached == {qpc.elems[qpc.byID[id]] :
                        id \in {k \in CacheIds : qpc.byID[k] # NoElem}}
           up == call.sortBy # "SORT_BY_DESC"
           inOrder(x, y) == IF up THEN x <= y ELSE x >= y
           before(a, b) ==
             IF call.orderBy = "ORDER_BY_NAME"
               THEN inOrder(NameRank(a.name), NameRank(b.name))
             ELSE IF call.orderBy = "ORDER_BY_CREATED_AT"
               THEN IF a.createdAt = b.createdAt THEN a.id <= b.id
                    ELSE inOrder(a.createdAt, b.createdAt)
             ELSE inOrder(a.id, b.id)
       IN /\ last'.status = "ok"
          /\ Len(out) = Cardinality(cached)
          /\ Range(out) = cached
          /\ \A i, j \in 1..Len(out) : i < j => before(out[i], out[j])]_vars

\* C40: New on a database file with N queues comes to return the engine;
\* when it has, QueuesExist is N and the cache holds every queue of the
\* file (as many as its capacity when there are more), each once; the GC
\* goroutine runs only when the cache is filled.
C40_StartupFillsCache ==
  /\ <>(boot.pc = "returned")
  /\ [](boot.pc = "returned" =>
          LET N == Cardinality(boot.rows)
              C == boot.cache
              hits == {id \in BootIds : cacheGetByID(C, id).ok}
          IN /\ QueuesExist = N
             /\ hits \subseteq boot.rows
             /\ Cardinality(hits) = IF N <= C.size THEN N ELSE C.size
             /\ \A i, j \in 1..Len(C.props) :
                  C.elems[C.props[i]].id = C.elems[C.props[j]].id => i = j)
  /\ [](gcPc # "none" => boot.pc = "returned")

=============================================================================
